---- MODULE Spec2Model ----
(***************************************************************************)
(* A model of the simple-sketch software rasterizer: the packed 32-bit     *)
(* Color, the PixelBuffer, and the Canvas drawing context.                 *)
(*                                                                         *)
(* Two representations keep the arithmetic of the Rust code exact while    *)
(* staying inside the model checker's 32-bit signed integers:              *)
(*   - a u32 is a pair <<hi, lo>> of 16-bit halves, shifted, masked and    *)
(*     or-ed as the code shifts, masks and ors the machine word;           *)
(*   - an f32 is a record [neg, m, e] of value (-1)^neg * m * 2^e with a   *)
(*     24-bit mantissa, and every operation rounds its exact result to     *)
(*     nearest, ties to even, as IEEE-754 single precision does.           *)
(***************************************************************************)
EXTENDS Integers, Sequences, FiniteSets, TLC

(***************************************************************************)
(* Powers of two and bit lengths                                           *)
(***************************************************************************)
Pow2(n) == 2 ^ n

\* (CHOOSE the \in { e : x \in { a } } : TRUE) is the element of a singleton:
\* e with x the value of a, where a is evaluated once, however often e uses x

\* the number of bits of n, 0 <= n < 2^31, by halving the search range
BitLen2(n) == IF n >= 2 THEN 2 ELSE n

BitLen4(n) == BitLen2(IF n >= 4 THEN n \div 4 ELSE n) + (IF n >= 4 THEN 2 ELSE 0)

BitLen8(n) == BitLen4(IF n >= 16 THEN n \div 16 ELSE n) + (IF n >= 16 THEN 4 ELSE 0)

BitLen16(n) ==
  BitLen8(IF n >= 256 THEN n \div 256 ELSE n) + (IF n >= 256 THEN 8 ELSE 0)

BitLen(n) ==
  BitLen16(IF n >= 65536 THEN n \div 65536 ELSE n) + (IF n >= 65536 THEN 16 ELSE 0)

Min(a, b) == IF a <= b THEN a ELSE b

Max(a, b) == IF a >= b THEN a ELSE b

Abs(a) == IF a < 0 THEN -a ELSE a

(***************************************************************************)
(* u32 machine words as two 16-bit halves                                  *)
(***************************************************************************)
HalfWord == Pow2(16)

U32(n) == << n \div HalfWord, n % HalfWord >>

\* where two 16-bit values are cut in two: at half the bits of the larger
BitCut(a, b) ==
  IF a >= 256 \/ b >= 256 THEN 256
  ELSE IF a >= 16 \/ b >= 16 THEN 16
  ELSE IF a >= 4 \/ b >= 4 THEN 4
  ELSE 2

\* a | b, bit by bit: the high bits, then the low bits
RECURSIVE BitOr16(_, _)
BitOr16(a, b) ==
  IF a = 0 THEN b
  ELSE IF b = 0 THEN a
  ELSE IF a = 1 /\ b = 1 THEN 1
  ELSE BitCut(a, b) * BitOr16(a \div BitCut(a, b), b \div BitCut(a, b))
         + BitOr16(a % BitCut(a, b), b % BitCut(a, b))

\* a & b, bit by bit
RECURSIVE BitAnd16(_, _)
BitAnd16(a, b) ==
  IF a = 0 \/ b = 0 THEN 0
  ELSE IF a = 1 /\ b = 1 THEN 1
  ELSE BitCut(a, b) * BitAnd16(a \div BitCut(a, b), b \div BitCut(a, b))
         + BitAnd16(a % BitCut(a, b), b % BitCut(a, b))

\* v << n on a u32, 0 <= n < 32: bits shifted past bit 31 are lost
Shl(v, n) ==
  IF n >= 16
    THEN << (v[2] * Pow2(n - 16)) % HalfWord, 0 >>
    ELSE << ((v[1] * Pow2(n)) % HalfWord) + (v[2] \div Pow2(16 - n)),
            (v[2] * Pow2(n)) % HalfWord >>

\* v >> n on a u32, 0 <= n < 32 (logical shift)
Shr(v, n) ==
  IF n >= 16
    THEN << 0, v[1] \div Pow2(n - 16) >>
    ELSE << v[1] \div Pow2(n),
            (v[2] \div Pow2(n)) + ((v[1] % Pow2(n)) * Pow2(16 - n)) >>

Or32(v0, w0) ==
  (CHOOSE the \in { (
    << BitOr16(v[1], w[1]), BitOr16(v[2], w[2]) >>
    ) : v \in { v0 }, w \in { w0 } } : TRUE)

And32(v0, w0) ==
  (CHOOSE the \in { (
    << BitAnd16(v[1], w[1]), BitAnd16(v[2], w[2]) >>
    ) : v \in { v0 }, w \in { w0 } } : TRUE)

\* `x as u8` of a u32: the low eight bits, as a number
LowByte(v) == v[2] % 256

(***************************************************************************)
(* Color: a packed 32-bit value                                            *)
(***************************************************************************)
\* a faulty constructor: red and blue exchanged
ColorNewSwapped(r0, g0, b0, a0) ==
  (CHOOSE the \in { (
    Or32(Or32(Or32(Shl(U32(a), 24), Shl(U32(b), 16)), Shl(U32(g), 8)), U32(r))
    ) : r \in { r0 }, g \in { g0 }, b \in { b0 }, a \in { a0 } } : TRUE)

ColorNew(r0, g0, b0, a0) ==
  (CHOOSE the \in { (
    Or32(Or32(Or32(Shl(U32(a), 24), Shl(U32(r), 16)), Shl(U32(g), 8)), U32(b))
    ) : r \in { r0 }, g \in { g0 }, b \in { b0 }, a \in { a0 } } : TRUE)

ColorR(c) == LowByte(And32(Shr(c, 16), U32(255)))

ColorG(c) == LowByte(And32(Shr(c, 8), U32(255)))

ColorB(c) == LowByte(And32(c, U32(255)))

ColorA(c) == LowByte(And32(Shr(c, 24), U32(255)))

WithAlpha(c0, alpha) ==
  (CHOOSE the \in { (
    ColorNew(ColorR(c), ColorG(c), ColorB(c), alpha)
    ) : c \in { c0 } } : TRUE)

(***************************************************************************)
(* f32: IEEE-754 single precision, round to nearest, ties to even.         *)
(* A value is [neg, m, e]: (-1)^neg * m * 2^e, with m = 0 (zero) or        *)
(* 2^23 <= m < 2^24.  The values the rasterizer computes stay far from the *)
(* exponent limits, so overflow, subnormals and NaN do not arise for the   *)
(* inputs enumerated here and are not represented.                         *)
(***************************************************************************)
FZero == [neg |-> FALSE, m |-> 0, e |-> 0]

\* f32::INFINITY, held as 2^128, the value its bit pattern continues the
\* finite ones to: it compares above every finite f32, which is what min,
\* max and negation need of it.  No arithmetic is done on it.
FInfinity == [neg |-> FALSE, m |-> Pow2(23), e |-> 105]

\* q * 2^e rounded to nearest, ties to even, where r of the bits dropped
\* below q's last bit is compared with half an ulp; q has 24 bits
RoundBits(neg, q0, r0, half0, e, sticky) ==
  (CHOOSE the \in { (
    LET up == r > half \/ (r = half /\ (sticky \/ q % 2 = 1))
    IN IF up /\ q + 1 = Pow2(24)
         THEN [neg |-> neg, m |-> Pow2(23), e |-> e + 1]
         ELSE [neg |-> neg, m |-> IF up THEN q + 1 ELSE q, e |-> e]
    ) : q \in { q0 }, r \in { r0 }, half \in { half0 } } : TRUE)

\* The f32 nearest to M * 2^e (+ a nonzero residue below M's last bit when
\* sticky), M < 2^31, of L bits.  With sticky set, callers pass at least 26.
RoundNE(neg0, M0, e0, sticky0) ==
  (CHOOSE the \in { (
    IF M = 0 THEN FZero
    ELSE IF L <= 24
      THEN [neg |-> neg, m |-> M * Pow2(24 - L), e |-> e - (24 - L)]
      ELSE RoundBits(neg, M \div Pow2(L - 24), M % Pow2(L - 24), Pow2(L - 25),
                     e + (L - 24), sticky)
    ) : neg \in { neg0 }, M \in { M0 }, e \in { e0 }, sticky \in { sticky0 },
        L \in { BitLen(M0) } } : TRUE)

\* n / 2^k exactly (|n| < 2^24): integer and dyadic literals such as 0.125
FDyadic(n0, k) ==
  (CHOOSE the \in { (
    RoundNE(n < 0, Abs(n), -k, FALSE)
    ) : n \in { n0 } } : TRUE)

FInt(n) == FDyadic(n, 0)

FNeg(x0) ==
  (CHOOSE the \in { (
    IF x.m = 0 THEN x ELSE [x EXCEPT !.neg = ~x.neg]
    ) : x \in { x0 } } : TRUE)

FAbs(x0) ==
  (CHOOSE the \in { (
    [x EXCEPT !.neg = FALSE]
    ) : x \in { x0 } } : TRUE)

\* |x| < |y|, |x| = |y| on normalised values
MagLt(x0, y0) ==
  (CHOOSE the \in { (
    IF x.m = 0 THEN y.m # 0
    ELSE IF y.m = 0 THEN FALSE
    ELSE x.e < y.e \/ (x.e = y.e /\ x.m < y.m)
    ) : x \in { x0 }, y \in { y0 } } : TRUE)

FEq(x0, y0) ==
  (CHOOSE the \in { (
    x.m = y.m /\ (x.m = 0 \/ (x.e = y.e /\ x.neg = y.neg))
    ) : x \in { x0 }, y \in { y0 } } : TRUE)

FLt(x0, y0) ==
  (CHOOSE the \in { (
    IF x.m = 0 /\ y.m = 0 THEN FALSE
    ELSE IF x.m = 0 THEN ~y.neg
    ELSE IF y.m = 0 THEN x.neg
    ELSE IF x.neg # y.neg THEN x.neg
    ELSE IF x.neg THEN MagLt(y, x) ELSE MagLt(x, y)
    ) : x \in { x0 }, y \in { y0 } } : TRUE)

FLe(x0, y0) ==
  (CHOOSE the \in { (
    FLt(x, y) \/ FEq(x, y)
    ) : x \in { x0 }, y \in { y0 } } : TRUE)

FGt(x, y) == FLt(y, x)

FGe(x, y) == FLe(y, x)

\* my * 8 shifted right by d places, and whether nonzero bits fell off
ShiftSticky(my, d) ==
  IF d >= 27 THEN << 0, my # 0 >>
  ELSE << (my * 8) \div Pow2(d), ((my * 8) % Pow2(d)) # 0 >>

\* |x| + |y| with sign neg, x the operand of larger (or equal) exponent
AddMag(neg, x0, y0) ==
  (CHOOSE the \in { (
    LET s == ShiftSticky(y.m, x.e - y.e)
    IN RoundNE(neg, x.m * 8 + s[1], x.e - 3, s[2])
    ) : x \in { x0 }, y \in { y0 } } : TRUE)

\* |x| - |y| with the sign of x, |x| > |y|
SubMag(x0, y0) ==
  (CHOOSE the \in { (
    LET s == ShiftSticky(y.m, x.e - y.e)
    IN RoundNE(x.neg, x.m * 8 - s[1] - (IF s[2] THEN 1 ELSE 0), x.e - 3, s[2])
    ) : x \in { x0 }, y \in { y0 } } : TRUE)

FAdd(x0, y0) ==
  (CHOOSE the \in { (
    IF x.m = 0 THEN y
    ELSE IF y.m = 0 THEN x
    ELSE IF x.neg = y.neg
      THEN AddMag(x.neg, IF x.e >= y.e THEN x ELSE y, IF x.e >= y.e THEN y ELSE x)
    ELSE IF x.e = y.e /\ x.m = y.m THEN FZero
    ELSE SubMag(IF MagLt(y, x) THEN x ELSE y, IF MagLt(y, x) THEN y ELSE x)
    ) : x \in { x0 }, y \in { y0 } } : TRUE)

FSub(x, y) == FAdd(x, FNeg(y))

\* the 48-bit product of two 24-bit mantissas, by 12-bit limbs: its top
\* bits (product \div 2^18) and whether the 18 bits below are nonzero
FMul(x0, y0) ==
  (CHOOSE the \in { (
    IF x.m = 0 \/ y.m = 0 THEN FZero
    ELSE LET a1 == x.m \div 4096  a0 == x.m % 4096
             b1 == y.m \div 4096  b0 == y.m % 4096
             p0 == a0 * b0
             p1 == a1 * b0 + a0 * b1
             p2 == a1 * b1
             t1 == p1 + (p0 \div 4096)
             l1 == t1 % 4096
             top == p2 + (t1 \div 4096)
         IN RoundNE(x.neg # y.neg, top * 64 + (l1 \div 64), x.e + y.e + 18,
                    (l1 % 64) # 0 \/ (p0 % 4096) # 0)
    ) : x \in { x0 }, y \in { y0 } } : TRUE)

\* long division: k more quotient bits of r / d appended to the quotient,
\* qr = << quotient so far, remainder r < d >>, d < 2^24, k <= 7
DivBits(qr0, d, k) ==
  (CHOOSE the \in { (
    LET n == qr[2] * Pow2(k)
    IN << qr[1] * Pow2(k) + (n \div d), n % d >>
    ) : qr \in { qr0 } } : TRUE)

\* x / y, y nonzero: 26 quotient bits after the leading one, and the remainder
FDiv(x0, y0) ==
  (CHOOSE the \in { (
    IF x.m = 0 THEN FZero
    ELSE LET d  == y.m
             q0 == << x.m \div d, x.m % d >>
         IN (CHOOSE the \in { RoundNE(x.neg # y.neg, qr[1], x.e - y.e - 26, qr[2] # 0) :
                    qr \in { DivBits(DivBits(DivBits(DivBits(q0, d, 7), d, 7),
                                             d, 6), d, 6) } } : TRUE)
    ) : x \in { x0 }, y \in { y0 } } : TRUE)

\* the integer square root of n < 2^26: its multiple of 64, then the rest
IntSqrt(n) ==
  (CHOOSE the \in { (CHOOSE r \in (64 * a) .. (64 * a + 63) : r * r <= n /\ n < (r + 1) * (r + 1))
        : a \in { CHOOSE a \in 0 .. 127 :
                    (64 * a) * (64 * a) <= n /\ n < (64 * a + 64) * (64 * a + 64) } } : TRUE)

\* whether (r * 2^14 + d)^2 <= n * 2^28 where n = r^2 + rem, which is
\* 2 * r * d * 2^14 + d^2 <= rem * 2^28, and whether the two are equal
SqrtFits(r, rem, d) ==
  2 * r * d + ((d * d + Pow2(14) - 1) \div Pow2(14)) <= rem * Pow2(14)

SqrtExact(r, rem, d) ==
  (d * d) % Pow2(14) = 0 /\ 2 * r * d + ((d * d) \div Pow2(14)) = rem * Pow2(14)

\* the square root of n * 2^28, 0 < n < 2^26: << its integer part, whether
\* it has a fraction >>.  The integer part is r * 2^14 + d with r the
\* integer square root of n and d the largest that fits, which is
\* rem * 2^13 / r less the few units that d^2 takes.
SqrtBits(n) ==
  (CHOOSE the \in { (
    LET rem  == n - r * r
        most == (rem * Pow2(13)) \div r
        less == (most * most) \div (2 * r * Pow2(14)) + 2
    IN (CHOOSE the \in { << r * Pow2(14) + d, ~SqrtExact(r, rem, d) >> :
               d \in { CHOOSE d \in Max(0, most - less) .. most :
                         SqrtFits(r, rem, d) /\ ~SqrtFits(r, rem, d + 1) } } : TRUE)
    ) : r \in { IntSqrt(n) } } : TRUE)

\* sqrt(x), x >= 0: the mantissa is given an even exponent, then the root
\* of m * 2^28 (or m * 2^29) is taken to 26 or 27 bits, and rounded
FSqrt(x0) ==
  (CHOOSE the \in { (
    IF x.m = 0 THEN FZero
    ELSE LET odd == x.e % 2 # 0
             m2  == IF odd THEN 2 * x.m ELSE x.m
             e2  == IF odd THEN x.e - 1 ELSE x.e
         IN (CHOOSE the \in { RoundNE(FALSE, sr[1], (e2 \div 2) - 14, sr[2]) :
                    sr \in { SqrtBits(m2) } } : TRUE)
    ) : x \in { x0 } } : TRUE)

\* the integer part of |x|, saturated at lim
TruncMag(x, lim) ==
  IF x.m = 0 THEN 0
  ELSE IF x.e >= 0
    THEN IF x.e >= 7 THEN lim ELSE Min(lim, x.m * Pow2(x.e))
  ELSE IF -x.e >= 24 THEN 0
  ELSE Min(lim, x.m \div Pow2(-x.e))

\* whether x has a nonzero fractional part
HasFract(x0) ==
  (CHOOSE the \in { (
    x.m # 0 /\ x.e < 0 /\ (-x.e >= 24 \/ x.m % Pow2(-x.e) # 0)
    ) : x \in { x0 } } : TRUE)

\* `x as u8`: truncation toward zero, saturating at 0 and 255
AsU8(x0) ==
  (CHOOSE the \in { (
    IF x.neg THEN 0 ELSE TruncMag(x, 255)
    ) : x \in { x0 } } : TRUE)

\* `x as i32` for |x| < 2^30: truncation toward zero
AsI32(x0) ==
  (CHOOSE the \in { (
    IF x.neg THEN -TruncMag(x, Pow2(30)) ELSE TruncMag(x, Pow2(30))
    ) : x \in { x0 } } : TRUE)

\* f32::floor, f32::ceil as integers (|x| < 2^30)
FloorI(x0) ==
  (CHOOSE the \in { (
    IF x.neg /\ HasFract(x) THEN AsI32(x) - 1 ELSE AsI32(x)
    ) : x \in { x0 } } : TRUE)

CeilI(x0) ==
  (CHOOSE the \in { (
    IF ~x.neg /\ HasFract(x) THEN AsI32(x) + 1 ELSE AsI32(x)
    ) : x \in { x0 } } : TRUE)

FFloor(x) == FInt(FloorI(x))

FCeil(x) == FInt(CeilI(x))

\* f32::fract: x - x.trunc(), which has the sign of x
FFract(x0) ==
  (CHOOSE the \in { (
    FSub(x, FInt(AsI32(x)))
    ) : x \in { x0 } } : TRUE)

\* f32::round: half away from zero
FRound(x0) ==
  (CHOOSE the \in { (
    FInt(IF FGe(FAbs(FFract(x)), FDyadic(1, 1))
           THEN (IF x.neg THEN AsI32(x) - 1 ELSE AsI32(x) + 1)
           ELSE AsI32(x))
    ) : x \in { x0 } } : TRUE)

\* `x as u32` for x < 2^30: truncation toward zero, negative values give 0
AsU32(x0) ==
  (CHOOSE the \in { (
    IF x.neg THEN 0 ELSE TruncMag(x, Pow2(30))
    ) : x \in { x0 } } : TRUE)

\* r * 2^k mod d, one doubling at a time (r < d < 2^24)
RECURSIVE RemBits(_, _, _)
RemBits(r, d, k) == IF k = 0 THEN r ELSE RemBits((2 * r) % d, d, k - 1)

\* x % y, y nonzero: the remainder of the division truncated toward zero,
\* which has the sign of x and is exact
FRem(x0, y0) ==
  (CHOOSE the \in { (
    IF MagLt(x, y) THEN x
    ELSE IF x.e >= y.e
      THEN RoundNE(x.neg, RemBits(x.m % y.m, y.m, x.e - y.e), y.e, FALSE)
      ELSE RoundNE(x.neg, x.m % (y.m * Pow2(y.e - x.e)), x.e, FALSE)
    ) : x \in { x0 }, y \in { y0 } } : TRUE)

(***************************************************************************)
(* Color::hsv_to_rgb (color.rs)                                            *)
(***************************************************************************)
\* the arm of the match on (h % 360.0) as u32: << r, g, b >>
HueSector(sector, c, x) ==
  IF sector <= 59 THEN << c, x, FZero >>
  ELSE IF sector <= 119 THEN << x, c, FZero >>
  ELSE IF sector <= 179 THEN << FZero, c, x >>
  ELSE IF sector <= 239 THEN << FZero, x, c >>
  ELSE IF sector <= 299 THEN << x, FZero, c >>
  ELSE << c, FZero, x >>

hsv_to_rgb(h, s, v) ==
  (CHOOSE the \in { (
    LET rgb == HueSector(AsU32(FRem(h, FInt(360))), c, x)
    IN ColorNew(AsU8(FMul(FAdd(rgb[1], m), FInt(255))),
                AsU8(FMul(FAdd(rgb[2], m), FInt(255))),
                AsU8(FMul(FAdd(rgb[3], m), FInt(255))),
                255)
    ) : c \in { FMul(v, s) },
        x \in { FMul(FMul(v, s),
                     FSub(FInt(1),
                          FAbs(FSub(FRem(FDiv(h, FInt(60)), FInt(2)), FInt(1))))) },
        m \in { FSub(v, FMul(v, s)) } } : TRUE)

(***************************************************************************)
(* Bounds of the model                                                     *)
(***************************************************************************)
\* the buffer is Width x Height pixels
Width == 2

Height == 2

\* the number of PixelBuffer operations in one behaviour
MaxOps == 2

\* the number of shape calls on the Canvas in one behaviour
MaxDraws == 1

\* coordinates reach one pixel past every edge of the buffer
XRange == -1..Width

YRange == -1..Height

\* Color::new(r, g, b, a): every byte value in each position, beside
\* bytes that are all zeros or all ones
ByteCorners == { 0, 255 }

ColorArgs ==
  UNION { { << v, x, y, z >>, << x, v, y, z >>, << x, y, v, z >>, << x, y, z, v >> } :
            v \in 0..255, x \in ByteCorners, y \in ByteCorners, z \in ByteCorners }

\* colours written verbatim (clear, set_pixel, background): a translucent
\* and an opaque one
PaintColors == { ColorNew(3, 6, 7, 65), ColorNew(255, 128, 0, 255) }

\* colours composited by blend_pixel: alpha 0, 65 and 255
BlendColors ==
  { ColorNew(3, 6, 7, 65), ColorNew(10, 200, 90, 0), ColorNew(0, 77, 255, 255) }

\* colours of the lines: an opaque and a translucent one
LineColors == { ColorNew(200, 100, 50, 255), ColorNew(3, 6, 7, 65) }

\* draw_line_aa(start, end): as << x0, y0, x1, y1 >>, in halves of a pixel.
\* Horizontal lines with whole endpoints across the canvas in its first and
\* its last row and in the row above it, from inside to beyond the right
\* edge, and right to left; a vertical, a diagonal and a steep line, and a
\* line with endpoints off the pixel grid.
LineArgs ==
  { << 0, 0, 2 * Width, 0 >>,
    << 0, 2 * (Height - 1), 2 * Width, 2 * (Height - 1) >>,
    << -2, -2, 2 * Width, -2 >>,
    << 2, 0, 2 * (Width + 1), 0 >>,
    << 2 * Width, 2, 0, 2 >>,
    << 2, 0, 2, 2 * Height >>,
    << 0, 0, 2 * Width, 2 * Height >>,
    << 0, 0, 2, 2 * Height >>,
    << 1, 1, 2 * Width - 1, 2 >> }

\* colours and coverages given to plot: alpha bytes 0 and 127 result
PlotColors == { ColorNew(200, 100, 50, 255) }

PlotAlphas == { FZero, FDyadic(1, 1) }

(***************************************************************************)
(* PixelBuffer                                                             *)
(* A buffer value is [width, height, buffer, panicked]: the three fields   *)
(* of the struct, buffer indexed from 1 (element i of the Vec is           *)
(* buffer[i + 1]), and whether an index past the end of the Vec was used,  *)
(* which makes the program panic and the call never complete.              *)
(***************************************************************************)
PixelBufferNew(width, height) ==
  [width |-> width, height |-> height,
   buffer |-> [i \in 1..(width * height) |-> U32(0)], panicked |-> FALSE]

\* self.buffer[index] = value
Store(pb, index, value) ==
  IF pb.panicked THEN pb
  ELSE IF index < 0 \/ index >= Len(pb.buffer) THEN [pb EXCEPT !.panicked = TRUE]
  ELSE [pb EXCEPT !.buffer[index + 1] = value]

\* self.buffer[index]
Load(pb, index) == pb.buffer[index + 1]

\* a faulty bounds test: the column one past the right edge is let through
InBoundsOffByOne(pb, x, y) == x >= 0 /\ x <= pb.width /\ y >= 0 /\ y < pb.height

InBounds(pb, x, y) == x >= 0 /\ x < pb.width /\ y >= 0 /\ y < pb.height

\* a faulty index: column-major instead of row-major
PixelIndexTransposed(pb, x, y) == x * pb.width + y

PixelIndex(pb, x, y) == y * pb.width + x

\* a faulty clear: stores the colour with its alpha byte forced to 255
clear_opaque(pb, color) ==
  [pb EXCEPT !.buffer = [i \in DOMAIN pb.buffer |-> Or32(color, Shl(U32(255), 24))]]

clear(pb, color) == [pb EXCEPT !.buffer = [i \in DOMAIN pb.buffer |-> color]]

set_pixel(pb0, x, y, color0) ==
  (CHOOSE the \in { (
    IF InBounds(pb, x, y) THEN Store(pb, PixelIndex(pb, x, y), color) ELSE pb
    ) : pb \in { pb0 }, color \in { color0 } } : TRUE)

\* a faulty channel: rounds to the nearest byte instead of truncating
BlendChannelRounded(inv_alpha, alpha, bg0, fg0) ==
  (CHOOSE the \in { AsU8(FRound(FAdd(FMul(inv_alpha, FInt(bg)), FMul(alpha, FInt(fg))))) :
          bg \in { bg0 }, fg \in { fg0 } } : TRUE)

\* (inv_alpha * bg as f32 + alpha * fg as f32) as u8
BlendChannel(inv_alpha, alpha, bg0, fg0) ==
  (CHOOSE the \in { AsU8(FAdd(FMul(inv_alpha, FInt(bg)), FMul(alpha, FInt(fg)))) :
          bg \in { bg0 }, fg \in { fg0 } } : TRUE)

\* a faulty composite: keeps the alpha of the colour blended in
CompositeKeepAlpha(bg, color) ==
  (CHOOSE the \in { (CHOOSE the \in { (
    ColorNew(BlendChannel(inv_alpha, alpha, ColorR(bg), ColorR(color)),
             BlendChannel(inv_alpha, alpha, ColorG(bg), ColorG(color)),
             BlendChannel(inv_alpha, alpha, ColorB(bg), ColorB(color)),
             ColorA(color))
    ) : inv_alpha \in { FSub(FInt(1), alpha) } } : TRUE)
    : alpha \in { FDiv(FInt(ColorA(color)), FInt(255)) } } : TRUE)

\* the pixel stored by blend_pixel over background pixel bg
Composite(bg, color) ==
  (CHOOSE the \in { (CHOOSE the \in { (
    ColorNew(BlendChannel(inv_alpha, alpha, ColorR(bg), ColorR(color)),
             BlendChannel(inv_alpha, alpha, ColorG(bg), ColorG(color)),
             BlendChannel(inv_alpha, alpha, ColorB(bg), ColorB(color)),
             255)
    ) : inv_alpha \in { FSub(FInt(1), alpha) } } : TRUE)
    : alpha \in { FDiv(FInt(ColorA(color)), FInt(255)) } } : TRUE)

blend_pixel(pb0, x, y, color0) ==
  (CHOOSE the \in { (
    IF InBounds(pb, x, y)
      THEN IF PixelIndex(pb, x, y) < Len(pb.buffer)
             THEN Store(pb, PixelIndex(pb, x, y),
                        Composite(Load(pb, PixelIndex(pb, x, y)), color))
             ELSE [pb EXCEPT !.panicked = TRUE]
      ELSE pb
    ) : pb \in { pb0 }, color \in { color0 } } : TRUE)

plot(pb, x, y, color, alpha) ==
  blend_pixel(pb, x, y,
              WithAlpha(color, AsU8(FMul(FInt(ColorA(color)), alpha))))

\* the two plots of draw_line_aa at an endpoint: column xpxl, rows
\* floor(yend) and floor(yend) + 1, x and y exchanged for a steep line
LineEndpoint(pb, steep, xpxl, yend0, xgap0, color) ==
  (CHOOSE the \in { (
    LET ypxl == AsI32(FFloor(yend))
        a1   == FMul(FSub(FInt(1), FFract(yend)), xgap)
        a2   == FMul(FFract(yend), xgap)
    IN IF steep
         THEN plot(plot(pb, ypxl, xpxl, color, a1), ypxl + 1, xpxl, color, a2)
         ELSE plot(plot(pb, xpxl, ypxl, color, a1), xpxl, ypxl + 1, color, a2)
    ) : yend \in { yend0 }, xgap \in { xgap0 } } : TRUE)

\* a faulty loop body: the coverages of the two rows exchanged
LineSpanSwapped(pb, steep, x, intery0, color) ==
  (CHOOSE the \in { (
    LET row == AsI32(FFloor(intery))
        a1  == FFract(intery)
        a2  == FSub(FInt(1), FFract(intery))
    IN IF steep
         THEN plot(plot(pb, row, x, color, a1), row + 1, x, color, a2)
         ELSE plot(plot(pb, x, row, color, a1), x, row + 1, color, a2)
    ) : intery \in { intery0 } } : TRUE)

\* the body of the main loop of draw_line_aa at column x
LineSpan(pb, steep, x, intery0, color) ==
  (CHOOSE the \in { (
    LET row == AsI32(FFloor(intery))
        a1  == FSub(FInt(1), FFract(intery))
        a2  == FFract(intery)
    IN IF steep
         THEN plot(plot(pb, row, x, color, a1), row + 1, x, color, a2)
         ELSE plot(plot(pb, x, row, color, a1), x, row + 1, color, a2)
    ) : intery \in { intery0 } } : TRUE)

\* for x in (xpxl1 + 1)..xpxl2 { ..; intery += gradient }, from x on
RECURSIVE LineLoop(_, _, _, _, _, _, _)
LineLoop(pb0, steep, x, xpxl2, intery0, gradient, color) ==
  (CHOOSE the \in { (
    IF x >= xpxl2 \/ pb.panicked THEN pb
    ELSE LineLoop(LineSpan(pb, steep, x, intery, color), steep, x + 1, xpxl2,
                  FAdd(intery, gradient), gradient, color)
    ) : pb \in { pb0 }, intery \in { intery0 } } : TRUE)

\* Wu's anti-aliased line
draw_line_aa(pb, start0, end0, color) ==
  LET steep    == FGt(FAbs(FSub(end0.y, start0.y)), FAbs(FSub(end0.x, start0.x)))
      s1       == IF steep THEN [x |-> start0.y, y |-> start0.x] ELSE start0
      e1       == IF steep THEN [x |-> end0.y, y |-> end0.x] ELSE end0
      start    == IF FGt(s1.x, e1.x) THEN e1 ELSE s1
      end      == IF FGt(s1.x, e1.x) THEN s1 ELSE e1
      dx       == FSub(end.x, start.x)
      dy       == FSub(end.y, start.y)
      gradient == IF FEq(dx, FZero) THEN FInt(1) ELSE FDiv(dy, dx)
      half     == FDyadic(1, 1)
      xend1    == FRound(start.x)
      yend1    == FAdd(start.y, FMul(gradient, FSub(xend1, start.x)))
      xgap1    == FSub(FInt(1), FFract(FAdd(start.x, half)))
      xpxl1    == AsI32(xend1)
      first    == LineEndpoint(pb, steep, xpxl1, yend1, xgap1, color)
      intery   == FAdd(yend1, gradient)
      xend2    == FRound(end.x)
      yend2    == FAdd(end.y, FMul(gradient, FSub(xend2, end.x)))
      xgap2    == FFract(FAdd(end.x, half))
      xpxl2    == AsI32(xend2)
      second   == LineEndpoint(first, steep, xpxl2, yend2, xgap2, color)
  IN LineLoop(second, steep, xpxl1 + 1, xpxl2, intery, gradient, color)

\* the range of i32
I32Max == Pow2(30) - 1 + Pow2(30)

I32Min == -Pow2(30) - Pow2(30)

\* a + b in i32 for b >= 0: the wrapped sum v, and whether it overflowed
I32Add(a0, b0) ==
  (CHOOSE the \in { (
    IF a > I32Max - b THEN [v |-> ((a - I32Max) + b) - I32Max - 2, o |-> TRUE]
    ELSE [v |-> a + b, o |-> FALSE]
    ) : a \in { a0 }, b \in { b0 } } : TRUE)

\* a - b in i32 for b >= 0
I32Sub(a0, b0) ==
  (CHOOSE the \in { (
    IF a < I32Min + b THEN [v |-> ((a - I32Min) + (I32Max - b)) + 1, o |-> TRUE]
    ELSE [v |-> a - b, o |-> FALSE]
    ) : a \in { a0 }, b \in { b0 } } : TRUE)

\* 2 * a in i32
I32Double(a) ==
  IF a >= 0 THEN I32Add(a, a)
  ELSE IF a = I32Min THEN [v |-> 0, o |-> TRUE]
  ELSE I32Sub(a, -a)

\* how many iterations of the loop of draw_line are followed: more than the
\* longest line over the canvas and the pixels around it takes
MaxCalls == Width + Height + 4

\* loop { set_pixel(x, y); if at the end { break }; step }, from (x, y) on,
\* step being << sx, sy >>: the buffer, the set_pixel calls so far and whether
\* the loop has returned, has panicked on an overflow (a build with overflow
\* checks) or is still running after MaxCalls iterations.
RECURSIVE LineWalk(_, _, _, _, _, _, _, _, _, _, _, _, _)
LineWalk(pb0, calls0, x, y, err, end_x, end_y, dx, dy, step, color, overflow_checks, fuel) ==
  (CHOOSE the \in { (
    IF x = end_x /\ y = end_y
      THEN [pb |-> drawn_to, calls |-> calls, status |-> "returned"]
    ELSE IF fuel = 0
      THEN [pb |-> drawn_to, calls |-> calls, status |-> "running"]
    ELSE LET e2    == I32Double(err)
             stepx == e2.v > -dy
             stepy == e2.v < dx
             less  == IF stepx THEN I32Sub(err, dy) ELSE [v |-> err, o |-> FALSE]
             more  == IF stepy THEN I32Add(less.v, dx) ELSE less
         IN IF overflow_checks /\ (e2.o \/ less.o \/ (stepy /\ more.o))
              THEN [pb |-> drawn_to, calls |-> calls, status |-> "panicked"]
            ELSE LineWalk(drawn_to, calls,
                          IF stepx THEN x + step[1] ELSE x,
                          IF stepy THEN y + step[2] ELSE y,
                          more.v, end_x, end_y, dx, dy, step, color,
                          overflow_checks, fuel - 1)
    ) : drawn_to \in { set_pixel(pb0, x, y, color) },
        calls \in { Append(calls0, << x, y >>) } } : TRUE)

\* Bresenham's line, for endpoints less than 2^31 pixels apart in x and in y
draw_line(pb, start, end, color, overflow_checks) ==
  LET start_x == FloorI(start.x)
      start_y == FloorI(start.y)
      end_x   == FloorI(end.x)
      end_y   == FloorI(end.y)
      dx      == Abs(end_x - start_x)
      dy      == Abs(end_y - start_y)
      sx      == IF start_x < end_x THEN 1 ELSE -1
      sy      == IF start_y < end_y THEN 1 ELSE -1
  IN LineWalk(pb, << >>, start_x, start_y, dx - dy, end_x, end_y, dx, dy,
              << sx, sy >>, color, overflow_checks, MaxCalls)

(***************************************************************************)
(* Shapes (shape.rs).  A point is [x, y] of f32.                           *)
(***************************************************************************)
Point(x, y) == [x |-> x, y |-> y]

FMin(x, y) == IF FLt(y, x) THEN y ELSE x

FMax(x, y) == IF FLt(x, y) THEN y ELSE x

Ellipse(center, width, height) ==
  [kind |-> "ellipse", center |-> center, width |-> width, height |-> height]

Rectangle(top_left, width, height) ==
  [kind |-> "rectangle", top_left |-> top_left, width |-> width, height |-> height]

EllipseContains(s, p) ==
  (CHOOSE the \in { FLe(FAdd(FMul(dx, dx), FMul(dy, dy)), FInt(1)) :
          dx \in { FDiv(FSub(p.x, s.center.x), FDiv(s.width, FInt(2))) },
          dy \in { FDiv(FSub(p.y, s.center.y), FDiv(s.height, FInt(2))) } } : TRUE)

EllipseBoundingBox(s) ==
  << Point(FSub(s.center.x, FDiv(s.width, FInt(2))),
           FSub(s.center.y, FDiv(s.height, FInt(2)))),
     Point(FAdd(s.center.x, FDiv(s.width, FInt(2))),
           FAdd(s.center.y, FDiv(s.height, FInt(2)))) >>

EllipseDistance(s, p) ==
  (CHOOSE the \in { (CHOOSE the \in { FMul(FSub(FSqrt(distance_squared), FInt(1)),
                   FDiv(FMin(s.width, s.height), FInt(2))) :
                distance_squared \in { FAdd(FMul(dx, dx), FMul(dy, dy)) } } : TRUE)
        : dx \in { FDiv(FSub(p.x, s.center.x), FDiv(s.width, FInt(2))) },
          dy \in { FDiv(FSub(p.y, s.center.y), FDiv(s.height, FInt(2))) } } : TRUE)

RectangleContains(s, p) ==
  /\ FGe(p.x, s.top_left.x) /\ FLe(p.x, FAdd(s.top_left.x, s.width))
  /\ FGe(p.y, s.top_left.y) /\ FLe(p.y, FAdd(s.top_left.y, s.height))

RectangleBoundingBox(s) ==
  << s.top_left,
     Point(FAdd(s.top_left.x, s.width), FAdd(s.top_left.y, s.height)) >>

\* Point::distance: (self - other).length()
PointDistance(p, q) ==
  (CHOOSE the \in { (CHOOSE the \in { FSqrt(squared) : squared \in { FAdd(FMul(dx, dx), FMul(dy, dy)) } } : TRUE)
        : dx \in { FSub(p.x, q.x) }, dy \in { FSub(p.y, q.y) } } : TRUE)

RectangleDistance(s, p) ==
  LET dx == FMin(FMax(FSub(p.x, s.top_left.x), FZero), s.width)
      dy == FMin(FMax(FSub(p.y, s.top_left.y), FZero), s.height)
  IN (CHOOSE the \in { PointDistance(p, closest_point) :
             closest_point \in { Point(FAdd(s.top_left.x, dx), FAdd(s.top_left.y, dy)) } } : TRUE)

(***************************************************************************)
(* Line segments (geom/line.rs) and polygons (shape.rs)                    *)
(***************************************************************************)
Line(start, end) == [start |-> start, end |-> end]

PointSub(p, q) == Point(FSub(p.x, q.x), FSub(p.y, q.y))

PointAdd(p, q) == Point(FAdd(p.x, q.x), FAdd(p.y, q.y))

PointMul(p, scalar) == Point(FMul(p.x, scalar), FMul(p.y, scalar))

PointDot(p, q) == FAdd(FMul(p.x, q.x), FMul(p.y, q.y))

\* Line::closest_point, for a segment of two distinct points
closest_point(line, point) ==
  LET line_vec  == PointSub(line.end, line.start)
      point_vec == PointSub(point, line.start)
  IN (CHOOSE the \in { (
       IF FLe(t, FZero) THEN line.start
       ELSE IF FGe(t, FInt(1)) THEN line.end
       ELSE PointAdd(line.start, PointMul(line_vec, t))
       ) : t \in { FDiv(PointDot(point_vec, line_vec),
                        PointDot(line_vec, line_vec)) } } : TRUE)

\* Line::distance_to_point: the distance to the closest point of the segment
distance_to_point(line, point) ==
  PointDistance(closest_point(line, point), point)

\* the turn of p, q, r: 0 collinear, 1 and 2 the two senses
orientation(p, q, r) ==
  (CHOOSE the \in { (
    IF val.m = 0 THEN 0 ELSE IF ~val.neg THEN 1 ELSE 2
    ) : val \in { FSub(FMul(FSub(q.y, p.y), FSub(r.x, q.x)),
                       FMul(FSub(q.x, p.x), FSub(r.y, q.y))) } } : TRUE)

\* q within the bounding box of p and r
on_segment(p, q, r) ==
  /\ FLe(q.x, FMax(p.x, r.x)) /\ FGe(q.x, FMin(p.x, r.x))
  /\ FLe(q.y, FMax(p.y, r.y)) /\ FGe(q.y, FMin(p.y, r.y))

\* Line::intersects
LineIntersects(self, other) ==
  (CHOOSE the \in { (
    \/ (o1 # o2 /\ o3 # o4)
    \/ (o1 = 0 /\ on_segment(self.start, other.start, self.end))
    \/ (o2 = 0 /\ on_segment(self.start, other.end, self.end))
    \/ (o3 = 0 /\ on_segment(other.start, self.start, other.end))
    \/ (o4 = 0 /\ on_segment(other.start, self.end, other.end))
    ) : o1 \in { orientation(self.start, self.end, other.start) },
        o2 \in { orientation(self.start, self.end, other.end) },
        o3 \in { orientation(other.start, other.end, self.start) },
        o4 \in { orientation(other.start, other.end, self.end) } } : TRUE)

\* a faulty point at parameter t: the direction of the segment reversed
PointAtReversed(self, t) ==
  Point(FAdd(self.start.x, FMul(t, FSub(self.start.x, self.end.x))),
        FAdd(self.start.y, FMul(t, FSub(self.start.y, self.end.y))))

\* the point of the first segment at parameter t
PointAt(self, t) ==
  Point(FAdd(self.start.x, FMul(t, FSub(self.end.x, self.start.x))),
        FAdd(self.start.y, FMul(t, FSub(self.end.y, self.start.y))))

\* Line::intersection_point: Option<Point>
intersection_point(self, other) ==
  IF ~LineIntersects(self, other) THEN << >>
  ELSE (CHOOSE the \in { (
    IF denom.m = 0 THEN << >>
    ELSE << PointAt(self,
              FDiv(FSub(FMul(FSub(self.start.x, other.start.x), dy34),
                        FMul(FSub(self.start.y, other.start.y), dx34)),
                   denom)) >>
    ) : dx34 \in { FSub(other.start.x, other.end.x) },
        dy34 \in { FSub(other.start.y, other.end.y) },
        denom \in { FSub(FMul(FSub(self.start.x, self.end.x),
                              FSub(other.start.y, other.end.y)),
                         FMul(FSub(self.start.y, self.end.y),
                              FSub(other.start.x, other.end.x))) } } : TRUE)

\* the coordinates of the endpoints of the segments
SegmentCoords == { 0, 1, 4 }

SegmentOf(x1, y1, x2, y2) ==
  Line(Point(FInt(x1), FInt(y1)), Point(FInt(x2), FInt(y2)))

Polygon(vertices) == [kind |-> "polygon", vertices |-> vertices]

\* the test of the ray-casting loop on the edge vi, vj; && does not
\* evaluate the division when the two ends are on one side of the ray
EdgeCrossed(vi, vj, point) ==
  IF FGt(vi.y, point.y) = FGt(vj.y, point.y) THEN FALSE
  ELSE FLt(point.x,
           FAdd(FDiv(FMul(FSub(vj.x, vi.x), FSub(point.y, vi.y)),
                     FSub(vj.y, vi.y)),
                vi.x))

\* for i in 0..len { ..; j = i }, from i on; vertex i is vertices[i + 1]
RECURSIVE ContainsLoop(_, _, _, _, _)
ContainsLoop(vertices, point, i, j, inside) ==
  IF i >= Len(vertices) THEN inside
  ELSE ContainsLoop(vertices, point, i + 1, i,
                    IF EdgeCrossed(vertices[i + 1], vertices[j + 1], point)
                      THEN ~inside ELSE inside)

\* Polygon::contains: [panicked, value].  let mut j = len() - 1 is a usize
\* subtraction: with no vertex it panics in a build with overflow checks
\* (the dev profile) and wraps to usize::MAX without them, where the loop
\* over 0..0 then does nothing.
PolygonContains(s, point, overflow_checks) ==
  IF Len(s.vertices) = 0
    THEN [panicked |-> overflow_checks, value |-> FALSE]
    ELSE [panicked |-> FALSE,
          value |-> ContainsLoop(s.vertices, point, 0, Len(s.vertices) - 1, FALSE)]

\* the reduction of bounding_box over the vertices from i on
RECURSIVE BoxLoop(_, _, _)
BoxLoop(vertices, i, box) ==
  IF i > Len(vertices) THEN box
  ELSE BoxLoop(vertices, i + 1,
               << Point(FMin(box[1].x, vertices[i].x), FMin(box[1].y, vertices[i].y)),
                  Point(FMax(box[2].x, vertices[i].x), FMax(box[2].y, vertices[i].y)) >>)

PolygonBoundingBox(s) ==
  IF Len(s.vertices) = 0 THEN << Point(FZero, FZero), Point(FZero, FZero) >>
  ELSE BoxLoop(s.vertices, 1,
               << Point(FInfinity, FInfinity),
                  Point(FNeg(FInfinity), FNeg(FInfinity)) >>)

\* the minimum of distance over the edges prev, vertices[i] from i on
RECURSIVE EdgeLoop(_, _, _, _, _)
EdgeLoop(vertices, point, i, before, min_distance) ==
  IF i > Len(vertices) THEN min_distance
  ELSE EdgeLoop(vertices, point, i + 1, vertices[i],
                FMin(min_distance,
                     distance_to_point(Line(before, vertices[i]), point)))

\* a faulty distance: never negated
PolygonDistanceUnsigned(s, point, overflow_checks) ==
  IF Len(s.vertices) < 2 THEN [panicked |-> FALSE, value |-> FInfinity]
  ELSE LET min_distance ==
             EdgeLoop(s.vertices, point, 1, s.vertices[Len(s.vertices)], FInfinity)
           inside == PolygonContains(s, point, overflow_checks)
       IN [panicked |-> inside.panicked, value |-> min_distance]

\* Polygon::distance: [panicked, value]
PolygonDistance(s, point, overflow_checks) ==
  IF Len(s.vertices) < 2 THEN [panicked |-> FALSE, value |-> FInfinity]
  ELSE LET min_distance ==
             EdgeLoop(s.vertices, point, 1, s.vertices[Len(s.vertices)], FInfinity)
           inside == PolygonContains(s, point, overflow_checks)
       IN [panicked |-> inside.panicked,
           value |-> IF inside.value THEN FNeg(min_distance) ELSE min_distance]

\* polygons of no, one, two, three and four vertices, in halves of a unit
Polygons ==
  { Polygon([i \in 1..Len(v) |-> Point(FDyadic(v[i][1], 1), FDyadic(v[i][2], 1))]) :
      v \in { << >>,
              << << 2, 2 >> >>,
              << << -3, 0 >> >>,
              << << 0, 0 >>, << 4, 2 >> >>,
              << << 0, 0 >>, << 4, 0 >>, << 2, 3 >> >>,
              << << 0, 0 >>, << 4, 0 >>, << 4, 4 >>, << 0, 4 >> >> } }

\* the points asked about: on vertices, inside, on edges and outside
QueryPoints ==
  { Point(FDyadic(x, 1), FDyadic(y, 1)) : x \in { -3, 0, 1, 2, 6 }, y \in { 0, 1, 2, 5 } }

(***************************************************************************)
(* Axis-aligned rectangles (geom/rect.rs)                                  *)
(***************************************************************************)
Rect(min, max) == [min |-> min, max |-> max]

RectIntersects(self, other) ==
  /\ FLe(self.min.x, other.max.x) /\ FGe(self.max.x, other.min.x)
  /\ FLe(self.min.y, other.max.y) /\ FGe(self.max.y, other.min.y)

\* a faulty intersection: rectangles that only touch are taken as disjoint
RectIntersectionStrict(self, other) ==
  LET min == Point(FMax(self.min.x, other.min.x), FMax(self.min.y, other.min.y))
      max == Point(FMin(self.max.x, other.max.x), FMin(self.max.y, other.max.y))
  IN IF FLt(min.x, max.x) /\ FLt(min.y, max.y) THEN << Rect(min, max) >> ELSE << >>

\* Rect::intersection: Option<Rect>
RectIntersection(self, other) ==
  LET min == Point(FMax(self.min.x, other.min.x), FMax(self.min.y, other.min.y))
      max == Point(FMin(self.max.x, other.max.x), FMin(self.max.y, other.max.y))
  IN IF FLe(min.x, max.x) /\ FLe(min.y, max.y) THEN << Rect(min, max) >> ELSE << >>

\* the extents of the rectangles on an axis, in halves of a unit: << min, max >>
\* with min <= max
Extents == { e \in { -2, 0, 1, 4 } \X { -2, 0, 1, 4 } : e[1] <= e[2] }

\* rectangles as << min.x, min.y, max.x, max.y >> in halves of a unit
RectArgsOf == { << ex[1], ey[1], ex[2], ey[2] >> : ex \in Extents, ey \in Extents }

RectOf(r) ==
  Rect(Point(FDyadic(r[1], 1), FDyadic(r[2], 1)),
       Point(FDyadic(r[3], 1), FDyadic(r[4], 1)))

\* dispatch on the Shape trait
contains(s, p) ==
  IF s.kind = "ellipse" THEN EllipseContains(s, p) ELSE RectangleContains(s, p)

bounding_box(s) ==
  IF s.kind = "ellipse" THEN EllipseBoundingBox(s) ELSE RectangleBoundingBox(s)

distance(s, p) ==
  IF s.kind = "ellipse" THEN EllipseDistance(s, p) ELSE RectangleDistance(s, p)

(***************************************************************************)
(* Canvas (canvas.rs).  Option<Color> is << >> (None) or << c >> (Some).   *)
(* canvas.rs reads the bounding box as (x, y, w, h) and scans up to        *)
(* x + w, y + h: the corner that shape.rs's bounding_box returns.          *)
(***************************************************************************)
None == << >>

Some(c) == << c >>

CanvasNew(width, height) ==
  [width |-> width, height |-> height,
   buffer |-> [i \in 1..(width * height) |-> U32(0)],
   fill |-> TRUE, fill_color |-> None,
   stroke |-> TRUE, stroke_color |-> None,
   stroke_weight |-> FInt(1), panicked |-> FALSE]

background(cv, color) ==
  [cv EXCEPT !.buffer = [i \in DOMAIN cv.buffer |-> color]]

set_fill(cv, color) == [cv EXCEPT !.fill_color = color, !.fill = TRUE]

\* a faulty setter: none leaves the stroke colour as it was
set_stroke_sticky(cv, color) ==
  IF color = None THEN [cv EXCEPT !.stroke = TRUE]
  ELSE [cv EXCEPT !.stroke_color = color, !.stroke = TRUE]

set_stroke(cv, color) == [cv EXCEPT !.stroke_color = color, !.stroke = TRUE]

set_stroke_weight(cv, weight) == [cv EXCEPT !.stroke_weight = weight]

\* the canvas's pixels as the PixelBuffer that draw_line_aa draws on
PixelBufferOf(cv) ==
  [width |-> cv.width, height |-> cv.height, buffer |-> cv.buffer,
   panicked |-> cv.panicked]

\* Canvas::line(a, b): with a stroke colour, draw_line_aa(a, b, stroke
\* colour) on the canvas's pixels; the stroke weight is not used
canvas_line(cv, a, b) ==
  IF cv.stroke_color = None THEN cv
  ELSE (CHOOSE the \in { [cv EXCEPT !.buffer = drawn_to.buffer, !.panicked = drawn_to.panicked] :
               drawn_to \in { draw_line_aa(PixelBufferOf(cv), a, b, cv.stroke_color[1]) } } : TRUE)

\* the pixel stored by Canvas::blend_pixel over background pixel bg
CanvasComposite(bg, color) ==
  (CHOOSE the \in { (CHOOSE the \in { (
    LET ch(b0, f0) ==
          (CHOOSE the \in { AsU8(FAdd(FMul(inv_alpha, FInt(b)), FMul(alpha, FInt(f)))) :
                  b \in { b0 }, f \in { f0 } } : TRUE)
    IN ColorNew(ch(ColorR(bg), ColorR(color)), ch(ColorG(bg), ColorG(color)),
                ch(ColorB(bg), ColorB(color)), 255)
    ) : inv_alpha \in { FSub(FInt(1), alpha) } } : TRUE)
    : alpha \in { FDiv(FInt(ColorA(color)), FInt(255)) } } : TRUE)

CanvasInBounds(cv, x, y) == x >= 0 /\ x < cv.width /\ y >= 0 /\ y < cv.height

canvas_blend_pixel(cv0, x, y, color0) ==
  (CHOOSE the \in { (
    IF cv.panicked THEN cv
    ELSE IF CanvasInBounds(cv, x, y)
      THEN LET index == y * cv.width + x
           IN IF index >= Len(cv.buffer) THEN [cv EXCEPT !.panicked = TRUE]
              ELSE [cv EXCEPT !.buffer[index + 1] =
                                  CanvasComposite(cv.buffer[index + 1], color)]
      ELSE cv
    ) : cv \in { cv0 }, color \in { color0 } } : TRUE)

\* the 16 sub-pixel sample offsets (dx, dy) of calculate_coverage:
\* (0.125, 0.125), (0.375, 0.125), .. (0.875, 0.875)
SampleOffsets == [i \in 1..4 |-> FDyadic(2 * i - 1, 3)]

Samples == { << SampleOffsets[i], SampleOffsets[j] >> : i \in 1..4, j \in 1..4 }

\* x + dx and y + dy are formed once for each of the four distinct offsets
calculate_coverage(shape, x, y) ==
  (CHOOSE the \in { (CHOOSE the \in { FDiv(FInt(count), FInt(Cardinality(Samples))) :
                count \in { Cardinality({ ij \in (1..4) \X (1..4) :
                                            contains(shape, Point(xs[ij[1]], ys[ij[2]])) }) } } : TRUE)
        : xs \in { [i \in 1..4 |-> FAdd(x, SampleOffsets[i])] },
          ys \in { [j \in 1..4 |-> FAdd(y, SampleOffsets[j])] } } : TRUE)

\* a faulty coverage: the distance into the stroke over half the weight,
\* which reaches 1 on the outline
calculate_stroke_coverage_full(cv, dist0) ==
  (CHOOSE the \in { (
    LET half_stroke == FDiv(cv.stroke_weight, FInt(2))
    IN IF FGt(FAbs(dist), half_stroke)
         THEN FZero
         ELSE FDiv(FSub(half_stroke, FAbs(dist)), half_stroke)
    ) : dist \in { dist0 } } : TRUE)

calculate_stroke_coverage(cv, dist0) ==
  (CHOOSE the \in { (
    LET half_stroke == FDiv(cv.stroke_weight, FInt(2))
    IN IF FGt(FAbs(dist), half_stroke)
         THEN FZero
         ELSE FDiv(FSub(half_stroke, FAbs(dist)), cv.stroke_weight)
    ) : dist \in { dist0 } } : TRUE)

\* the scan region of the fill pass: << x1, x2, y1, y2 >>
FillRegion(shape) ==
  LET bb == bounding_box(shape)
  IN << FloorI(bb[1].x), CeilI(bb[2].x), FloorI(bb[1].y), CeilI(bb[2].y) >>

\* the body of the fill loop at one pixel
FillPixel(cv, shape, color, px, py) ==
  (CHOOSE the \in { (
    IF FGt(coverage, FInt(1))
      THEN (CHOOSE the \in { canvas_blend_pixel(cv, px, py, aa_color) :
                   aa_color \in { WithAlpha(color, AsU8(FMul(FInt(ColorA(color)), coverage))) } } : TRUE)
      ELSE cv
    ) : coverage \in { calculate_coverage(shape, FInt(px), FInt(py)) } } : TRUE)

\* for py in y1..=y2 { .. }, from py on; a panic ends the call
RECURSIVE FillColumn(_, _, _, _, _, _)
FillColumn(cv0, shape, color, px, py, y2) ==
  (CHOOSE the \in { (
    IF py > y2 \/ cv.panicked THEN cv
    ELSE FillColumn(FillPixel(cv, shape, color, px, py), shape, color, px, py + 1, y2)
    ) : cv \in { cv0 } } : TRUE)

\* for px in x1..=x2 { for py in y1..=y2 { .. } }, from px on
RECURSIVE FillLoop(_, _, _, _, _, _, _)
FillLoop(cv0, shape, color, px, x2, y1, y2) ==
  (CHOOSE the \in { (
    IF px > x2 \/ cv.panicked THEN cv
    ELSE FillLoop(FillColumn(cv, shape, color, px, y1, y2),
                  shape, color, px + 1, x2, y1, y2)
    ) : cv \in { cv0 } } : TRUE)

\* a faulty fill pass: composites the colour over every pixel up to one
\* beyond the rounded bounding box, whatever its coverage
fill_shape_spill(cv, shape, color) ==
  LET r == FillRegion(shape)
      painted(i) ==
        /\ ((i - 1) % cv.width) \in (r[1] - 1)..(r[2] + 1)
        /\ ((i - 1) \div cv.width) \in (r[3] - 1)..(r[4] + 1)
  IN [cv EXCEPT !.buffer =
        [i \in DOMAIN cv.buffer |->
           IF painted(i) THEN CanvasComposite(cv.buffer[i], color)
           ELSE cv.buffer[i]]]

fill_shape_aa(cv, shape, color) ==
  LET r == FillRegion(shape)
  IN FillLoop(cv, shape, color, r[1], r[2], r[3], r[4])

\* the scan region of the stroke pass
StrokeRegion(cv, shape) ==
  LET bb == bounding_box(shape)
      sw == AsI32(cv.stroke_weight)
  IN << FloorI(bb[1].x) - sw, CeilI(bb[2].x) + sw,
        FloorI(bb[1].y) - sw, CeilI(bb[2].y) + sw >>

\* a faulty stroke loop body: pixels of coverage 0 are blended too
StrokePixelFringe(cv, shape, color, px, py) ==
  (CHOOSE the \in { (
    IF FGe(coverage, FZero)
      THEN (CHOOSE the \in { canvas_blend_pixel(cv, px, py, aa_color) :
                   aa_color \in { WithAlpha(color, AsU8(FMul(FInt(ColorA(color)), coverage))) } } : TRUE)
      ELSE cv
    ) : coverage \in { (CHOOSE the \in { calculate_stroke_coverage(cv, dist) :
                               dist \in { distance(shape, Point(FInt(px), FInt(py))) } } : TRUE) } } : TRUE)

StrokePixel(cv, shape, color, px, py) ==
  (CHOOSE the \in { (
    IF FGt(coverage, FZero)
      THEN (CHOOSE the \in { canvas_blend_pixel(cv, px, py, aa_color) :
                   aa_color \in { WithAlpha(color, AsU8(FMul(FInt(ColorA(color)), coverage))) } } : TRUE)
      ELSE cv
    ) : coverage \in { (CHOOSE the \in { calculate_stroke_coverage(cv, dist) :
                               dist \in { distance(shape, Point(FInt(px), FInt(py))) } } : TRUE) } } : TRUE)

RECURSIVE StrokeColumn(_, _, _, _, _, _)
StrokeColumn(cv0, shape, color, px, py, y2) ==
  (CHOOSE the \in { (
    IF py > y2 \/ cv.panicked THEN cv
    ELSE StrokeColumn(StrokePixel(cv, shape, color, px, py),
                      shape, color, px, py + 1, y2)
    ) : cv \in { cv0 } } : TRUE)

RECURSIVE StrokeLoop(_, _, _, _, _, _, _)
StrokeLoop(cv0, shape, color, px, x2, y1, y2) ==
  (CHOOSE the \in { (
    IF px > x2 \/ cv.panicked THEN cv
    ELSE StrokeLoop(StrokeColumn(cv, shape, color, px, y1, y2),
                    shape, color, px + 1, x2, y1, y2)
    ) : cv \in { cv0 } } : TRUE)

stroke_shape_aa(cv, shape, color) ==
  LET r == StrokeRegion(cv, shape)
  IN StrokeLoop(cv, shape, color, r[1], r[2], r[3], r[4])

\* which passes draw_shape_aa runs: << fill, stroke >>
DrawPasses(cv) == << cv.fill_color # None, cv.stroke_color # None >>

\* the two phases of draw_shape_aa
AfterFill(cv, shape) ==
  IF DrawPasses(cv)[1] THEN fill_shape_aa(cv, shape, cv.fill_color[1]) ELSE cv

AfterStroke(cv, filled, shape) ==
  IF DrawPasses(cv)[2] THEN stroke_shape_aa(filled, shape, cv.stroke_color[1])
  ELSE filled

\* a faulty pipeline: the stroke pass first, the fill pass over it
draw_shape_aa_stroke_first(cv, shape) ==
  LET stroked == AfterStroke(cv, cv, shape)
  IN [mid |-> stroked,
      out |-> IF DrawPasses(cv)[1] THEN fill_shape_aa(stroked, shape, cv.fill_color[1])
              ELSE stroked]

\* the canvas between the phases (mid) and when the call returns (out)
draw_shape_aa(cv, shape) ==
  LET filled == AfterFill(cv, shape)
  IN [mid |-> filled, out |-> AfterStroke(cv, filled, shape)]

\* the shape Canvas::ellipse builds
EllipseShape(x, y, w, h) ==
  Ellipse(Point(FAdd(x, FDiv(w, FInt(2))), FAdd(y, FDiv(h, FInt(2)))), w, h)

\* the shape Canvas::rectangle builds
RectangleShape(x, y, w, h) == Rectangle(Point(x, y), w, h)

(***************************************************************************)
(* Inputs of the canvas operations                                         *)
(***************************************************************************)
FillOptions == { None, Some(ColorNew(0, 77, 255, 255)) }

StrokeOptions == { None, Some(ColorNew(200, 100, 50, 255)) }

StrokeWeights == { FInt(1), FInt(2) }

\* rectangle(x, y, w, h): the whole canvas, one pixel, off the pixel grid,
\* across the right and the left edge, wholly outside, and empty
RectArgs ==
  { << FZero, FZero, FInt(Width), FInt(Height) >>,
    << FZero, FZero, FInt(1), FInt(1) >>,
    << FDyadic(1, 1), FDyadic(1, 1), FInt(1), FInt(1) >>,
    << FDyadic(1, 1), FZero, FInt(Width), FInt(1) >>,
    << FDyadic(-3, 1), FDyadic(1, 1), FInt(Width), FInt(Height) >>,
    << FDyadic(-3, 1), FZero, FInt(1), FInt(1) >>,
    << FInt(1), FInt(1), FZero, FZero >> }

\* ellipse(x, y, w, h): a circle inside, a circle across the left edge, and
\* an ellipse higher than wide
EllipseArgs ==
  { << FZero, FZero, FInt(2), FInt(2) >>,
    << FInt(-1), FZero, FInt(2), FInt(2) >>,
    << FZero, FZero, FInt(1), FInt(2) >> }

(***************************************************************************)
(* ApplicationRunner (application.rs).  A runner value is [width, height,  *)
(* loop_mode] of the struct, with pc, the statement the host loop is at:   *)
(* "ready" (constructed, run not called), "test" (the while condition of   *)
(* run_continuous), "update", "draw", "in_draw" (inside the application's  *)
(* draw), "present", "wait" (the closing loop of run_single_frame) and     *)
(* "returned".  The window of 640 x 360 is scaled to Width x Height.  The  *)
(* canvas of the runner is the variable canvas.                            *)
(***************************************************************************)
\* the number of frames of the host loop in one behaviour
MaxFrames == 2

LoopModes == { "SingleFrame", "Continuous" }

\* the sizes given to ApplicationRunner::size
Sizes == { << 1, 1 >>, << Width, 1 >>, << Width + 1, Height >> }

NoRunner ==
  [pc |-> "none", width |-> Width, height |-> Height, loop_mode |-> "Continuous"]

\* ApplicationRunner::new: the runner and its canvas; setup has run
ApplicationRunnerNew ==
  [runner |-> [pc |-> "ready", width |-> Width, height |-> Height,
               loop_mode |-> "Continuous"],
   canvas |-> CanvasNew(Width, Height)]

\* a faulty run: a single frame, too, tests the window before it begins
run_tests_first(r) == [r EXCEPT !.pc = "test"]

\* run: the loop that the mode selects
run(r) ==
  [r EXCEPT !.pc = IF r.loop_mode = "SingleFrame" THEN "update" ELSE "test"]

\* a faulty frame: presents before the application has drawn
AfterStatementPresentFirst(mode, pc) ==
  CASE pc = "update"  -> "present"
    [] pc = "present" -> "draw"
    [] pc = "draw"    -> IF mode = "SingleFrame" THEN "wait" ELSE "test"

\* the statement that follows statement pc of a frame, in both loops:
\* update(); draw(&mut canvas); update_with_buffer(..)
AfterStatement(mode, pc) ==
  CASE pc = "update"  -> "draw"
    [] pc = "draw"    -> "present"
    [] pc = "present" -> IF mode = "SingleFrame" THEN "wait" ELSE "test"

\* what update_with_buffer is given: the buffer and the runner's dimensions
Presented(r, cv) == [buffer |-> cv.buffer, width |-> r.width, height |-> r.height]

\* a faulty resize: keeps the canvas
size_keeps_canvas(r, cv, width, height) ==
  [runner |-> [r EXCEPT !.width = width, !.height = height, !.pc = "ready"],
   canvas |-> cv]

\* size: a new window, which is open, and a new canvas
size(r, cv, width, height) ==
  [runner |-> [r EXCEPT !.width = width, !.height = height, !.pc = "ready"],
   canvas |-> CanvasNew(width, height)]

set_loop_mode(r, mode) == [r EXCEPT !.loop_mode = mode]

\* the canvases one call of the application's draw can leave: a background,
\* a stroke colour, or a rectangle or an ellipse over the scaled window
AppDraws(cv) ==
  { background(cv, c) : c \in PaintColors }
    \cup { set_stroke(cv, c) : c \in StrokeOptions \ { None } }
    \cup { draw_shape_aa(cv, RectangleShape(FZero, FZero, FInt(Width), FInt(Height))).out,
           draw_shape_aa(cv, EllipseShape(FZero, FZero, FInt(Width), FInt(Height))).out }

(***************************************************************************)
(* State                                                                   *)
(***************************************************************************)
VARIABLES
  pb,      \* the PixelBuffer
  canvas,  \* the Canvas
  obj,     \* which of the two the behaviour has used: they share nothing
  last,    \* the last operation: [op, args]; the paint setters of the
           \* canvas are all recorded as "setter", their effect is in recent
  prev,    \* the object operated on, as it was before the last operation
  drawn,   \* the last shape call: the canvas between its passes and after
  recent,  \* what the most recent set_fill and set_stroke were given
  packed,  \* the Color last constructed, None before the first
  ops,     \* the number of buffer-writing operations so far
  runner,  \* the ApplicationRunner
  events,  \* what the host loop has done: "setup", "update", "draw" (the
           \* call), "drawn" (its return) and "present", in order
  shown,   \* what the window was last given, None before the first present
  frames,  \* the number of frames begun
  started, \* the number of events when run was last called
  answer   \* what the last query of a shape, rectangle or segment returned

vars ==
  << pb, canvas, obj, last, prev, drawn, recent, packed, ops,
     runner, events, shown, frames, started, answer >>

host == << runner, events, shown, frames, started >>

NoOp == [op |-> "new", args |-> << >>]

Init ==
  /\ pb = PixelBufferNew(Width, Height)
  /\ canvas = CanvasNew(Width, Height)
  /\ obj = "none"
  /\ last = NoOp
  /\ prev = pb
  /\ drawn = [mid |-> canvas, out |-> canvas]
  /\ recent = [fill |-> None, stroke |-> None]
  /\ packed = None
  /\ ops = 0
  /\ runner = NoRunner
  /\ events = << >>
  /\ shown = None
  /\ frames = 0
  /\ started = 0
  /\ answer = None

\* an operation on the PixelBuffer: its result, and the record of the call
PbStep(result, op, args) ==
  /\ obj \in { "none", "pixelbuffer" }
  /\ ops < MaxOps
  /\ ~pb.panicked
  /\ pb' = result
  /\ prev' = pb
  /\ last' = [op |-> op, args |-> args]
  /\ ops' = ops + 1
  /\ obj' = "pixelbuffer"
  /\ UNCHANGED << canvas, drawn, recent, packed, host, answer >>

Clear == \E c \in PaintColors : PbStep(clear(pb, c), "clear", << c >>)

SetPixel ==
  \E x \in XRange, y \in YRange, c \in PaintColors :
    PbStep(set_pixel(pb, x, y, c), "set_pixel", << x, y, c >>)

BlendPixel ==
  \E x \in XRange, y \in YRange, c \in BlendColors :
    PbStep(blend_pixel(pb, x, y, c), "blend_pixel", << x, y, c >>)

Plot ==
  \E x \in XRange, y \in YRange, c \in PlotColors, a \in PlotAlphas :
    PbStep(plot(pb, x, y, c, a), "plot", << x, y, c, a >>)

DrawLineAA ==
  \E a \in LineArgs, c \in LineColors :
    LET start == Point(FDyadic(a[1], 1), FDyadic(a[2], 1))
        end   == Point(FDyadic(a[3], 1), FDyadic(a[4], 1))
    IN PbStep(draw_line_aa(pb, start, end, c), "draw_line_aa", << start, end, c >>)

NextPixel == Clear \/ SetPixel \/ BlendPixel \/ Plot

SpecPixel == Init /\ [][NextPixel]_vars

\* lines drawn over fresh and over cleared buffers
NextLine == Clear \/ DrawLineAA

SpecLine == Init /\ [][NextLine]_vars

\* an operation on the Canvas.  prev and drawn keep the canvas before a shape
\* call, between its passes and at its return; any other call resets them.
CanvasStep(result, op, args) ==
  /\ obj \in { "none", "canvas" }
  /\ ~canvas.panicked
  /\ canvas' = result
  /\ last' = [op |-> op, args |-> args]
  /\ obj' = "canvas"
  /\ UNCHANGED << pb, packed, host, answer >>

CanvasCall(result, op, args) ==
  /\ CanvasStep(result, op, args)
  /\ prev' = canvas'
  /\ drawn' = [mid |-> canvas', out |-> canvas']
  /\ UNCHANGED ops

ShapeCall(shape, op) ==
  /\ ops < MaxDraws
  /\ drawn' = draw_shape_aa(canvas, shape)
  /\ CanvasStep(drawn'.out, op, << shape >>)
  /\ prev' = canvas
  /\ ops' = ops + 1
  /\ UNCHANGED recent

Background ==
  \E c \in PaintColors :
    /\ CanvasCall(background(canvas, c), "background", << c >>)
    /\ UNCHANGED recent

SetFill ==
  \E c \in FillOptions :
    /\ CanvasCall(set_fill(canvas, c), "setter", << >>)
    /\ recent' = [recent EXCEPT !.fill = c]

SetStroke ==
  \E c \in StrokeOptions :
    /\ CanvasCall(set_stroke(canvas, c), "setter", << >>)
    /\ recent' = [recent EXCEPT !.stroke = c]

SetStrokeWeight ==
  \E w \in StrokeWeights :
    /\ CanvasCall(set_stroke_weight(canvas, w), "setter", << >>)
    /\ UNCHANGED recent

DrawEllipse ==
  \E a \in EllipseArgs : ShapeCall(EllipseShape(a[1], a[2], a[3], a[4]), "ellipse")

DrawRectangle ==
  \E a \in RectArgs : ShapeCall(RectangleShape(a[1], a[2], a[3], a[4]), "rectangle")

NextCanvas ==
  \/ Background \/ SetFill \/ SetStroke \/ SetStrokeWeight
  \/ DrawEllipse \/ DrawRectangle

SpecCanvas == Init /\ [][NextCanvas]_vars

\* Canvas::line between two points
CanvasLine ==
  /\ ops < MaxDraws
  /\ \E a \in LineArgs :
       LET start == Point(FDyadic(a[1], 1), FDyadic(a[2], 1))
           end   == Point(FDyadic(a[3], 1), FDyadic(a[4], 1))
       IN CanvasStep(canvas_line(canvas, start, end), "line", << start, end >>)
  /\ prev' = canvas
  /\ drawn' = [mid |-> canvas', out |-> canvas']
  /\ ops' = ops + 1
  /\ UNCHANGED recent

\* lines drawn on a canvas after backgrounds and stroke settings
NextCanvasLine == Background \/ SetStroke \/ SetStrokeWeight \/ CanvasLine

SpecCanvasLine == Init /\ [][NextCanvasLine]_vars

\* draw_line(start, end, color) in a build with or without overflow checks.
\* The set_pixel calls of the loop are kept in answer; a call that panics or
\* is still in its loop leaves a buffer nothing more is done with.
DrawLineCall(start, end, c, overflow_checks) ==
  /\ obj \in { "none", "pixelbuffer" }
  /\ ops < MaxOps
  /\ ~pb.panicked
  /\ \E walk \in { draw_line(pb, start, end, c, overflow_checks) } :
       /\ pb' = [walk.pb EXCEPT !.panicked = (walk.status # "returned")]
       /\ answer' = Some([calls |-> walk.calls, status |-> walk.status])
  /\ prev' = pb
  /\ last' = [op |-> "draw_line", args |-> << start, end, c >>]
  /\ ops' = ops + 1
  /\ obj' = "pixelbuffer"
  /\ UNCHANGED << canvas, drawn, recent, packed, host >>

DrawLine ==
  \E a \in LineArgs, c \in LineColors, overflow_checks \in BOOLEAN :
    LET start == Point(FDyadic(a[1], 1), FDyadic(a[2], 1))
        end   == Point(FDyadic(a[3], 1), FDyadic(a[4], 1))
    IN DrawLineCall(start, end, c, overflow_checks)

\* a step of the host: the runner, its canvas and the record of the step
HostStep(r, cv, op, args) ==
  /\ runner' = r
  /\ canvas' = cv
  /\ last' = [op |-> op, args |-> args]
  /\ prev' = canvas
  /\ obj' = "runner"
  /\ UNCHANGED << pb, drawn, recent, packed, answer >>

\* ApplicationRunner::new, setup included
RunnerNew ==
  /\ obj = "none"
  /\ HostStep(ApplicationRunnerNew.runner, ApplicationRunnerNew.canvas,
              "runner_new", << >>)
  /\ events' = << "setup" >>
  /\ started' = 0
  /\ UNCHANGED << shown, frames, ops >>

\* the calls made on the runner while it is not running
Size ==
  /\ runner.pc \in { "ready", "returned" }
  /\ \E wh \in Sizes :
       LET sized == size(runner, canvas, wh[1], wh[2])
       IN HostStep(sized.runner, sized.canvas, "size", wh)
  /\ UNCHANGED << started, events, shown, frames, ops >>

SetLoopMode ==
  /\ runner.pc = "ready"
  /\ \E mode \in LoopModes :
       HostStep(set_loop_mode(runner, mode), canvas, "set_loop_mode", << mode >>)
  /\ UNCHANGED << started, events, shown, frames, ops >>

Run ==
  /\ runner.pc = "ready"
  /\ frames < MaxFrames
  /\ HostStep(run(runner), canvas, "run", << >>)
  /\ started' = Len(events)
  /\ UNCHANGED << events, shown, frames, ops >>

\* while window.is_open() && !is_key_down(Escape): the window is open
WindowOpen ==
  /\ runner.pc = "test"
  /\ frames < MaxFrames
  /\ HostStep([runner EXCEPT !.pc = "update"], canvas, "test", << >>)
  /\ UNCHANGED << started, events, shown, frames, ops >>

\* the closing loop of run_single_frame with the window open: window.update()
WindowUpdate ==
  /\ runner.pc = "wait"
  /\ HostStep(runner, canvas, "wait", << >>)
  /\ UNCHANGED << started, events, shown, frames, ops >>

\* the window is closed, or Escape is down: the loop ends and run returns
WindowClosed ==
  /\ runner.pc \in { "test", "wait" }
  /\ HostStep([runner EXCEPT !.pc = "returned"], canvas, "closed", << >>)
  /\ UNCHANGED << started, events, shown, frames, ops >>

Update ==
  /\ runner.pc = "update"
  /\ HostStep([runner EXCEPT !.pc = AfterStatement(runner.loop_mode, "update")],
              canvas, "update", << >>)
  /\ events' = Append(events, "update")
  /\ frames' = frames + 1
  /\ UNCHANGED << started, shown, ops >>

\* application.draw(&mut canvas) is called
DrawCall ==
  /\ runner.pc = "draw"
  /\ HostStep([runner EXCEPT !.pc = "in_draw"], canvas, "draw", << >>)
  /\ events' = Append(events, "draw")
  /\ UNCHANGED << started, shown, frames, ops >>

\* one call on the canvas inside the application's draw
AppDraw ==
  /\ runner.pc = "in_draw"
  /\ ops < MaxOps
  /\ ~canvas.panicked
  /\ \E cv \in AppDraws(canvas) : HostStep(runner, cv, "app_draw", << >>)
  /\ ops' = ops + 1
  /\ UNCHANGED << started, events, shown, frames >>

\* application.draw returns
DrawReturn ==
  /\ runner.pc = "in_draw"
  /\ HostStep([runner EXCEPT !.pc = AfterStatement(runner.loop_mode, "draw")],
              canvas, "drawn", << >>)
  /\ events' = Append(events, "drawn")
  /\ UNCHANGED << started, shown, frames, ops >>

\* window.update_with_buffer(canvas.get_buffer(), width, height)
Present ==
  /\ runner.pc = "present"
  /\ HostStep([runner EXCEPT !.pc = AfterStatement(runner.loop_mode, "present")],
              canvas, "present", << >>)
  /\ events' = Append(events, "present")
  /\ shown' = Some(Presented(runner, canvas))
  /\ UNCHANGED << started, frames, ops >>

NextRunner ==
  \/ RunnerNew \/ Size \/ SetLoopMode \/ Run \/ WindowOpen \/ WindowClosed
  \/ WindowUpdate
  \/ Update \/ DrawCall \/ AppDraw \/ DrawReturn \/ Present

\* the host loop, and sequences of drawing operations on a PixelBuffer
NextHost == NextRunner \/ Clear \/ DrawLine \/ DrawLineAA

SpecHost == Init /\ [][NextHost]_vars

\* draw_line(start, end) between whole pixels << x0, y0, x1, y1 >>: a single
\* pixel inside and one outside the canvas, lines in the eight octants with
\* one or both endpoints outside, and two lines of 2^30 pixels, of which
\* the loop is followed for its first MaxCalls calls.
WalkArgs ==
  { << 0, 0, 0, 0 >>,
    << -1, -1, -1, -1 >>,
    << 0, 0, Width, 0 >>,
    << Width - 1, Height, Width - 1, -1 >>,
    << Width, Height, -1, -1 >>,
    << 0, Height + 1, 1, -1 >>,
    << -1, 0, Width + 1, 1 >>,
    << Width - 1, 0, 0, Height + 1 >>,
    << Width + 1, 1, -1, 0 >>,
    << 1, -1, 0, Height >>,
    << 0, 0, Pow2(30), 0 >>,
    << 0, 1, 1, Pow2(30) >> }

DrawLineWalk ==
  \E a \in WalkArgs, c \in LineColors, overflow_checks \in BOOLEAN :
    DrawLineCall(Point(FInt(a[1]), FInt(a[2])), Point(FInt(a[3]), FInt(a[4])),
                 c, overflow_checks)

\* lines drawn into a pixel buffer, cleared now and then
NextWalk == Clear \/ DrawLine \/ DrawLineWalk

SpecWalk == Init /\ [][NextWalk]_vars

\* Color::new, applied once to four bytes: the function is pure, a second
\* construction would not depend on the first
ColorNewStep ==
  \E a \in ColorArgs :
    /\ obj = "none"
    /\ packed = None
    /\ packed' = Some(ColorNew(a[1], a[2], a[3], a[4]))
    /\ last' = [op |-> "color_new", args |-> a]
    /\ obj' = "color"
    /\ UNCHANGED << pb, canvas, prev, drawn, recent, ops, host, answer >>

NextColor == ColorNewStep

SpecColor == Init /\ [][NextColor]_vars

\* clear and background over buffers that hold pixels and strokes
NextClear == Clear \/ SetPixel \/ Background \/ SetStroke \/ DrawRectangle

SpecClear == Init /\ [][NextClear]_vars

\* a query of a pure function, asked once: a second query would not depend
\* on the first
Query(op, args, result) ==
  /\ obj = "none"
  /\ answer' = Some(result)
  /\ last' = [op |-> op, args |-> args]
  /\ obj' = "query"
  /\ UNCHANGED << pb, canvas, prev, drawn, recent, packed, ops, host >>

\* the three queries of the Shape trait on a polygon, in either build
PolygonQuery ==
  \E s \in Polygons, point \in QueryPoints, overflow_checks \in BOOLEAN :
    Query("polygon", << s, point, overflow_checks >>,
          [contains     |-> PolygonContains(s, point, overflow_checks),
           bounding_box |-> PolygonBoundingBox(s),
           distance     |-> PolygonDistance(s, point, overflow_checks)])

NextPolygon == PolygonQuery

SpecPolygon == Init /\ [][NextPolygon]_vars

\* hues in halves of a degree: every 15 degrees from -360 to 720, and 16,
\* 376 and -344 degrees, which are one hue
HueHalves == { 30 * k : k \in -24..48 } \cup { 32, 752, -688 }

\* saturations and values: 0, 1/4, 1/2, 3/4, 1
UnitSteps == { FDyadic(k, 2) : k \in 0..4 }

HsvQuery ==
  \E n \in HueHalves, s \in UnitSteps, v \in UnitSteps :
    Query("hsv_to_rgb", << n, s, v >>, hsv_to_rgb(FDyadic(n, 1), s, v))

NextHsv == HsvQuery

SpecHsv == Init /\ [][NextHsv]_vars

\* intersects and intersection of two rectangles, in both orders
RectQuery ==
  \E a \in RectArgsOf, b \in RectArgsOf :
    Query("rect", << a, b >>,
          [intersects |-> RectIntersects(RectOf(a), RectOf(b)),
           ab |-> RectIntersection(RectOf(a), RectOf(b)),
           ba |-> RectIntersection(RectOf(b), RectOf(a))])

NextRect == RectQuery

SpecRect == Init /\ [][NextRect]_vars

\* intersection_point of two segments << x1, y1, x2, y2 >>, << x3, y3, x4, y4 >>
SegmentQuery ==
  \E a \in SegmentCoords \X SegmentCoords \X SegmentCoords \X SegmentCoords,
     b \in SegmentCoords \X SegmentCoords \X SegmentCoords \X SegmentCoords :
    Query("intersection_point", << a, b >>,
          intersection_point(SegmentOf(a[1], a[2], a[3], a[4]),
                             SegmentOf(b[1], b[2], b[3], b[4])))

NextSegment == SegmentQuery

SpecSegment == Init /\ [][NextSegment]_vars

\* n tenths as an f32 literal: 0.1 is the f32 nearest to 1/10
Tenths(n) == FDiv(FInt(n), FInt(10))

\* points, corners and extents of the rectangle queries, in tenths
RectanglePointXs == { -10, 0, 1, 5, 10, 25, 50, 200 }

RectanglePointYs == { 0, 5, 30, 50 }

RectangleCorners == { -10, 0 } \X { 0, 5 }

RectangleExtents == { 0, 10, 20, 100 } \X { 0, 10, 100 }

\* contains and distance of the Shape trait on a rectangle
RectangleQuery ==
  \E px \in RectanglePointXs, py \in RectanglePointYs,
     c \in RectangleCorners, wh \in RectangleExtents :
    LET s == Rectangle(Point(Tenths(c[1]), Tenths(c[2])), Tenths(wh[1]), Tenths(wh[2]))
        p == Point(Tenths(px), Tenths(py))
    IN Query("rectangle", << px, py, c[1], c[2], wh[1], wh[2] >>,
             [contains |-> RectangleContains(s, p),
              distance |-> RectangleDistance(s, p)])

NextRectangle == RectangleQuery

SpecRectangle == Init /\ [][NextRectangle]_vars

\* ellipses and the points asked about, in tenths: a circle and ellipses
\* with a non-dyadic centre and extents, points at the centre, inside, on
\* the boundary (6, 8 on the circle of diameter 20) and outside
EllipseCentres == { << 0, 0 >>, << 1, -5 >> }

EllipseExtents == { 20, 30, 2 } \X { 20, 10, 1 }

EllipsePoints == { -10, 0, 1, 6, 8, 10, 15 } \X { 0, 5, 6, 8, 10 }

\* the three queries of the Shape trait on an ellipse
EllipseQuery ==
  \E c \in EllipseCentres, e \in EllipseExtents, p \in EllipsePoints :
    LET s     == Ellipse(Point(Tenths(c[1]), Tenths(c[2])), Tenths(e[1]), Tenths(e[2]))
        point == Point(Tenths(p[1]), Tenths(p[2]))
    IN Query("ellipse", << s, point >>,
             [contains     |-> EllipseContains(s, point),
              bounding_box |-> EllipseBoundingBox(s),
              distance     |-> EllipseDistance(s, point)])

\* a query of an ellipse or of a polygon
NextShapeQuery == EllipseQuery \/ PolygonQuery

SpecShapeQuery == Init /\ [][NextShapeQuery]_vars

Next ==
  \/ NextPixel \/ NextLine \/ NextCanvas \/ NextColor \/ NextClear \/ NextHost
  \/ NextPolygon \/ NextHsv \/ NextRect \/ NextSegment \/ NextRectangle
  \/ NextCanvasLine
  \/ NextWalk
  \/ NextShapeQuery

Spec == Init /\ [][Next]_vars

(***************************************************************************)
(* Properties of the PixelBuffer operations, read off the history          *)
(* variables: last is the call, prev the buffer before it, pb after it.    *)
(***************************************************************************)
\* the last call addressed one pixel: its arguments start with x, y, color
Addressed == last.op \in { "set_pixel", "blend_pixel", "plot" }

LastX == last.args[1]

LastY == last.args[2]

\* (x, y) of the last call lies in [0, width) x [0, height)
LastInside ==
  /\ Addressed
  /\ LastX \in 0..(prev.width - 1)
  /\ LastY \in 0..(prev.height - 1)

LastOutside == Addressed /\ ~LastInside

\* the element of the Vec that pixel (x, y) of the last call occupies
LastSlot == LastY * prev.width + LastX + 1

\* the colour the last blend_pixel composited: plot scales the alpha first
LastBlended ==
  IF last.op = "plot"
    THEN WithAlpha(last.args[3],
                   AsU8(FMul(FInt(ColorA(last.args[3])), last.args[4])))
    ELSE last.args[3]

FreshBuffer == PixelBufferNew(Width, Height).buffer

\* C1: set_pixel, blend_pixel and plot at a coordinate outside
\* [0, width) x [0, height) leave every pixel of the buffer as it was and
\* complete without a panic.
C1_OutsideLeavesBuffer ==
  LastOutside => (pb.buffer = prev.buffer /\ ~pb.panicked)

\* C1 happens: a blend at x = width over a buffer that already holds pixels
C1_Witness ==
  /\ LastOutside
  /\ last.op = "blend_pixel"
  /\ LastX = prev.width
  /\ LastY \in 0..(prev.height - 1)
  /\ prev.buffer # FreshBuffer

\* C2: after blend_pixel or plot on a pixel in bounds, the alpha byte stored
\* at that pixel is 255, whatever alpha was blended in and whatever the pixel
\* held before.
C2_BlendStoresOpaque ==
  (LastInside /\ last.op \in { "blend_pixel", "plot" })
    => (~pb.panicked /\ ColorA(pb.buffer[LastSlot]) = 255)

\* C2 happens: alpha 0 blended over a pixel whose alpha was 65
C2_Witness ==
  /\ LastInside
  /\ last.op = "blend_pixel"
  /\ ColorA(LastBlended) = 0
  /\ ColorA(prev.buffer[LastSlot]) = 65
  /\ ColorA(pb.buffer[LastSlot]) = 255

\* bg * (1 - A/255) + fg * (A/255), truncated, in exact arithmetic
ExactBlend(bg, fg, A) == (bg * (255 - A) + fg * A) \div 255

\* the three channels of a packed colour
Channels(c) == << ColorR(c), ColorG(c), ColorB(c) >>

\* the last call was a blend_pixel (or the blend of a plot) in bounds
LastBlendInside == LastInside /\ last.op \in { "blend_pixel", "plot" }

\* C3 as stated: each channel stored by an in-bounds blend_pixel is the
\* truncation of bg * (1 - A/255) + fg * (A/255).
C3_ExactTruncation ==
  LastBlendInside =>
    \A k \in 1..3 :
      Channels(pb.buffer[LastSlot])[k] =
        ExactBlend(Channels(prev.buffer[LastSlot])[k],
                   Channels(LastBlended)[k], ColorA(LastBlended))

\* C3, amended: each channel stored by an in-bounds blend_pixel is the
\* truncation of bg * (1 - A/255) + fg * (A/255) or one less than it (the
\* single-precision sum can fall just short of a whole number); A = 255
\* stores the foreground channels and A = 0 the background channels.
C3_TruncationWithinOne ==
  LastBlendInside =>
    \A k \in 1..3 :
      LET bg     == Channels(prev.buffer[LastSlot])[k]
          fg     == Channels(LastBlended)[k]
          A      == ColorA(LastBlended)
          stored == Channels(pb.buffer[LastSlot])[k]
      IN /\ stored \in { ExactBlend(bg, fg, A) - 1, ExactBlend(bg, fg, A) }
         /\ stored >= 0
         /\ A = 255 => stored = fg
         /\ A = 0 => stored = bg

\* C3 happens: a partial alpha blended over a pixel that was not black, and
\* a channel that falls one short of the exact truncation
C3_Witness ==
  /\ LastBlendInside
  /\ ColorA(LastBlended) = 65
  /\ ColorA(prev.buffer[LastSlot]) = 65
  /\ \E k \in 1..3 :
       /\ Channels(prev.buffer[LastSlot])[k] > 0
       /\ Channels(pb.buffer[LastSlot])[k] =
            ExactBlend(Channels(prev.buffer[LastSlot])[k],
                       Channels(LastBlended)[k], 65) - 1

\* C7: set_pixel in bounds stores the packed colour verbatim at index
\* y * width + x and changes no other element of the buffer.
C7_SetPixelStoresVerbatim ==
  (LastInside /\ last.op = "set_pixel")
    => /\ ~pb.panicked
       /\ pb.buffer = [prev.buffer EXCEPT ![LastSlot] = last.args[3]]

\* C7 happens: a translucent colour stored off the diagonal, over a buffer
\* that already holds pixels
C7_Witness ==
  /\ LastInside
  /\ last.op = "set_pixel"
  /\ LastX # LastY
  /\ ColorA(last.args[3]) = 65
  /\ prev.buffer # FreshBuffer
  /\ pb.buffer[LastSlot] = last.args[3]

(***************************************************************************)
(* Properties of the Canvas shape calls: last is the call, prev the canvas *)
(* before it, drawn.mid the canvas after its fill pass, canvas (and        *)
(* drawn.out) the canvas at its return.                                    *)
(***************************************************************************)
ShapeDrawn == last.op \in { "ellipse", "rectangle" }

LastShape == last.args[1]

\* the pixels of the canvas, as << x, y >>
CanvasPixels == (0..(prev.width - 1)) \X (0..(prev.height - 1))

\* the element of the Vec that pixel p occupies
Slot(p) == p[2] * prev.width + p[1] + 1

\* the last shape lies within the canvas
ShapeOnCanvas ==
  LET bb == bounding_box(LastShape)
  IN /\ FGe(bb[1].x, FZero) /\ FLe(bb[2].x, FInt(prev.width))
     /\ FGe(bb[1].y, FZero) /\ FLe(bb[2].y, FInt(prev.height))

\* all the sub-pixel samples of pixel p lie inside the last shape
FullyInside(p) ==
  \A d \in Samples :
    contains(LastShape, Point(FAdd(FInt(p[1]), d[1]), FAdd(FInt(p[2]), d[2])))

\* C4 as stated: with an opaque fill colour and no stroke, a rectangle drawn
\* on a canvas that contains it leaves every pixel all of whose samples are
\* inside the rectangle equal to the fill colour.
C4_InteriorFilled ==
  ( /\ last.op = "rectangle"
    /\ recent.fill # None /\ recent.stroke = None
    /\ ShapeOnCanvas )
    => (ColorA(recent.fill[1]) = 255 =>
          \A p \in CanvasPixels :
            FullyInside(p) => canvas.buffer[Slot(p)] = recent.fill[1])

\* pixel p lies strictly outside the bounding box of the last shape, rounded
\* outward with floor and ceil
OutsideBox(p) ==
  LET bb == bounding_box(LastShape)
  IN \/ p[1] < FloorI(bb[1].x) \/ p[1] > CeilI(bb[2].x)
     \/ p[2] < FloorI(bb[1].y) \/ p[2] > CeilI(bb[2].y)

\* C5: the fill pass of a shape call leaves every pixel strictly outside the
\* shape's rounded bounding box unchanged, wherever the shape lies, and
\* completes without a panic.
C5_FillStaysInBox ==
  (ShapeDrawn /\ recent.fill # None)
    => /\ ~drawn.mid.panicked
       /\ \A p \in CanvasPixels :
            OutsideBox(p) => drawn.mid.buffer[Slot(p)] = prev.buffer[Slot(p)]

\* C5 happens: a fill pass for a shape across the left edge of a canvas that
\* holds a background, with canvas pixels outside the box
C5_Witness ==
  /\ ShapeDrawn /\ recent.fill # None
  /\ FLt(bounding_box(LastShape)[1].x, FZero)
  /\ prev.buffer # FreshBuffer
  /\ \E p \in CanvasPixels : OutsideBox(p)
  /\ \E p \in CanvasPixels : ~OutsideBox(p)

\* C8: a shape call runs the fill pass only if the most recent set_fill
\* passed a colour and the stroke pass only if the most recent set_stroke
\* passed a colour; with both none the call leaves the buffer unchanged.
C8_PassesFollowSetters ==
  ShapeDrawn =>
    /\ DrawPasses(prev) = << recent.fill # None, recent.stroke # None >>
    /\ recent.fill = None => drawn.mid = prev
    /\ recent.stroke = None => drawn.out = drawn.mid
    /\ (recent.fill = None /\ recent.stroke = None) =>
         (canvas.buffer = prev.buffer /\ ~canvas.panicked)
    /\ canvas = drawn.out

\* C8 happens: a call with a stroke colour and no fill colour, whose stroke
\* pass writes pixels over a background
C8_Witness ==
  /\ ShapeDrawn
  /\ recent.fill = None /\ recent.stroke # None
  /\ prev.buffer # FreshBuffer
  /\ drawn.mid = prev
  /\ canvas.buffer # prev.buffer

(***************************************************************************)
(* Properties of draw_line_aa: last.args is << start, end, color >>        *)
(***************************************************************************)
\* the last call drew a horizontal line with whole endpoints, left to right
HorizontalLine ==
  /\ last.op = "draw_line_aa"
  /\ FEq(last.args[1].y, last.args[2].y)
  /\ ~HasFract(last.args[1].x) /\ ~HasFract(last.args[2].x)
  /\ ~HasFract(last.args[1].y)
  /\ FLt(last.args[1].x, last.args[2].x)

LineX0 == AsI32(last.args[1].x)

LineX1 == AsI32(last.args[2].x)

LineY == AsI32(last.args[1].y)

\* the pixels of the buffer, as << x, y >>
BufferPixels == (0..(prev.width - 1)) \X (0..(prev.height - 1))

\* the interior columns of the line receive its colour at full coverage:
\* the colour composited with its own alpha over what the pixel held
InteriorAtFullCoverage ==
  \A p \in BufferPixels :
    (p[2] = LineY /\ p[1] > LineX0 /\ p[1] < LineX1) =>
      LET bg    == Channels(prev.buffer[Slot(p)])
          fg    == Channels(last.args[3])
          A     == ColorA(last.args[3])
          out   == Channels(pb.buffer[Slot(p)])
      IN /\ ColorA(pb.buffer[Slot(p)]) = 255
         /\ \A k \in 1..3 :
              /\ out[k] \in { ExactBlend(bg[k], fg[k], A) - 1,
                              ExactBlend(bg[k], fg[k], A) }
              /\ A = 255 => out[k] = fg[k]

\* C6 as stated: a horizontal line with whole endpoints changes no pixel
\* outside row y, on any buffer, and every interior column of row y receives
\* the colour at full coverage.
C6_OnlyRowY ==
  HorizontalLine =>
    /\ \A p \in BufferPixels :
         p[2] # LineY => pb.buffer[Slot(p)] = prev.buffer[Slot(p)]
    /\ InteriorAtFullCoverage

\* C6, amended: a horizontal line with whole endpoints changes no colour
\* channel of any pixel outside row y; outside row y it changes only the
\* alpha byte of the pixels of row y + 1 in columns x0..x1, to 255 (they are
\* plotted with coverage 0), so only pixels whose alpha byte was not 255,
\* as in a freshly allocated buffer; every interior column of row y receives
\* the colour at full coverage; the call completes without a panic.
C6_OnlyRowYChannels ==
  HorizontalLine =>
    /\ ~pb.panicked
    /\ \A p \in BufferPixels :
         p[2] # LineY =>
           /\ Channels(pb.buffer[Slot(p)]) = Channels(prev.buffer[Slot(p)])
           /\ IF p[2] = LineY + 1 /\ p[1] >= LineX0 /\ p[1] <= LineX1
                THEN ColorA(pb.buffer[Slot(p)]) = 255
                ELSE pb.buffer[Slot(p)] = prev.buffer[Slot(p)]
    /\ InteriorAtFullCoverage

\* C6 happens: a line along the first row of a freshly allocated buffer,
\* with an interior column holding the colour and the row below it changed
\* in its alpha byte alone
C6_Witness ==
  /\ HorizontalLine
  /\ prev.buffer = FreshBuffer
  /\ LineY = 0
  /\ \E p \in BufferPixels :
       /\ p[2] = 0 /\ p[1] > LineX0 /\ p[1] < LineX1
       /\ pb.buffer[Slot(p)] = last.args[3]
       /\ pb.buffer[Slot(<< p[1], 1 >>)] = ColorNew(0, 0, 0, 255)

(***************************************************************************)
(* Properties of Color and of clear and background                         *)
(***************************************************************************)
\* C9: Color::new(r, g, b, a) round-trips through r(), g(), b() and a(),
\* and the packed value holds alpha in bits 24-31, red in bits 16-23, green
\* in bits 8-15 and blue in bits 0-7 (a 32-bit value is the pair of its
\* high and low 16 bits).
C9_ColorRoundTrip ==
  last.op = "color_new" =>
    LET c == packed[1]
    IN /\ ColorR(c) = last.args[1] /\ ColorG(c) = last.args[2]
       /\ ColorB(c) = last.args[3] /\ ColorA(c) = last.args[4]
       /\ c = << last.args[4] * 256 + last.args[1],
                 last.args[2] * 256 + last.args[3] >>

\* C9 happens: four different bytes, the alpha byte with its top bit set
C9_Witness ==
  /\ last.op = "color_new"
  /\ last.args = << 255, 0, 77, 255 >>
  /\ packed = Some(<< 65535, 77 >>)

\* C10: after clear(color) on a PixelBuffer, or background(color) on a
\* Canvas, every pixel equals the packed colour verbatim, whatever the buffer
\* held and whatever the colour's alpha.
C10_ClearOverwrites ==
  /\ last.op = "clear" =>
       /\ DOMAIN pb.buffer = DOMAIN prev.buffer
       /\ \A i \in DOMAIN pb.buffer : pb.buffer[i] = last.args[1]
  /\ last.op = "background" =>
       /\ DOMAIN canvas.buffer = 1..(canvas.width * canvas.height)
       /\ \A i \in DOMAIN canvas.buffer : canvas.buffer[i] = last.args[1]

\* C10 happens: a translucent colour cleared over a buffer whose pixels
\* differ from each other
C10_Witness ==
  /\ last.op = "clear"
  /\ ColorA(last.args[1]) = 65
  /\ \E i, j \in DOMAIN prev.buffer : prev.buffer[i] # prev.buffer[j]
  /\ \A i \in DOMAIN pb.buffer : pb.buffer[i] = last.args[1]

(***************************************************************************)
(* Properties of the host loop (application.rs)                            *)
(***************************************************************************)
\* the canvas is as Canvas::new(width, height) leaves it
NewlyConstructed(cv, width, height) ==
  /\ cv.width = width /\ cv.height = height
  /\ Len(cv.buffer) = width * height
  /\ \A i \in DOMAIN cv.buffer : cv.buffer[i] = U32(0)
  /\ cv.fill_color = None /\ cv.stroke_color = None

\* C11: after any sequence of drawing operations the buffer has
\* width * height elements and width and height are those of the
\* construction; size replaces the canvas by a newly constructed one of the
\* new dimensions, and at every present the buffer given to the window has
\* width * height elements, for the width and height of the runner.
C11_BufferKeepsSize ==
  /\ pb.width = Width /\ pb.height = Height
  /\ Len(pb.buffer) = Width * Height
  /\ Len(canvas.buffer) = canvas.width * canvas.height
  /\ obj # "runner" => canvas.width = Width /\ canvas.height = Height
  /\ obj = "runner" =>
       /\ canvas.width = runner.width /\ canvas.height = runner.height
       /\ last.op = "size" =>
            NewlyConstructed(canvas, last.args[1], last.args[2])
       /\ shown # None =>
            Len(shown[1].buffer) = shown[1].width * shown[1].height

\* a frame is presented, drawn on, after a resize to other dimensions
C11_Witness ==
  /\ last.op = "present"
  /\ shown[1].width * shown[1].height # Width * Height
  /\ Len(shown[1].buffer) = runner.width * runner.height
  /\ \E i \in DOMAIN shown[1].buffer : shown[1].buffer[i] # U32(0)

\* what a frame does, in order
FrameCycle == << "update", "draw", "drawn", "present" >>

\* C12: setup runs once, before the first update, and every frame is
\* update, then draw, then present: the window is given the buffer after
\* the frame's draw has returned, as that draw left it, and the canvas is
\* drawn on only between the call and the return of draw.
C12_FrameOrder ==
  /\ obj = "runner" => events # << >>
  /\ \A i \in DOMAIN events :
       events[i] = IF i = 1 THEN "setup" ELSE FrameCycle[((i - 2) % 4) + 1]
  /\ last.op = "present" =>
       /\ events[Len(events) - 1] = "drawn"
       /\ shown[1].buffer = canvas.buffer
       /\ canvas = prev
  /\ last.op = "app_draw" => events[Len(events)] = "draw"

\* the second frame of the continuous loop is presented, drawn on
C12_Witness ==
  /\ last.op = "present"
  /\ runner.loop_mode = "Continuous"
  /\ Len(events) = 1 + 2 * Len(FrameCycle)
  /\ \E i \in DOMAIN canvas.buffer : canvas.buffer[i] # U32(0)

(***************************************************************************)
(* Properties of the shape queries (shape.rs)                              *)
(***************************************************************************)
\* the polygon and the point of the last query, and the number of vertices
AskedPolygon == last.op = "polygon"

VertexCount == Len(last.args[1].vertices)

\* C13: the three queries of a polygon with no vertex return normally, the
\* bounding box being (0,0)-(0,0) and the distance infinite; for a polygon
\* with one vertex distance returns infinity and contains returns.
C13_MalformedPolygonsAnswer ==
  (AskedPolygon /\ VertexCount <= 1) =>
    /\ ~answer[1].contains.panicked
    /\ ~answer[1].distance.panicked
    /\ answer[1].distance.value = [neg |-> FALSE, m |-> 2 ^ 23, e |-> 105]
    /\ VertexCount = 0 =>
         answer[1].bounding_box = << Point(FZero, FZero), Point(FZero, FZero) >>

(***************************************************************************)
(* Properties of hsv_to_rgb (color.rs)                                     *)
(***************************************************************************)
\* the hue of the last query wrapped into [0, 360), in halves of a degree
WrappedHalves == last.args[1] % (2 * 360)

\* C14: hsv_to_rgb(h, s, v) is hsv_to_rgb(h mod 360, s, v), h mod 360 being
\* in [0, 360), for negative h and h >= 360 too, and its alpha is 255.
C14_HueWraps ==
  last.op = "hsv_to_rgb" =>
    /\ answer[1] = hsv_to_rgb(FDyadic(WrappedHalves, 1), last.args[2], last.args[3])
    /\ ColorA(answer[1]) = 255

(***************************************************************************)
(* Properties of Rect (geom/rect.rs)                                       *)
(***************************************************************************)
\* the componentwise maximum of the mins and minimum of the maxes of the
\* two rectangles of the last query, in halves of a unit
OverlapMin ==
  << Max(last.args[1][1], last.args[2][1]), Max(last.args[1][2], last.args[2][2]) >>

OverlapMax ==
  << Min(last.args[1][3], last.args[2][3]), Min(last.args[1][4], last.args[2][4]) >>

Overlapping == OverlapMin[1] <= OverlapMax[1] /\ OverlapMin[2] <= OverlapMax[2]

\* C15: for rectangles with min <= max, intersection(a, b) is Some of the
\* rectangle from the componentwise maximum of the mins to the componentwise
\* minimum of the maxes exactly when a.intersects(b), None for disjoint
\* rectangles, and intersection(b, a) is the same.
C15_IntersectionIsOverlap ==
  last.op = "rect" =>
    /\ answer[1].intersects = Overlapping
    /\ answer[1].ab =
         IF Overlapping
           THEN << [min |-> [x |-> FDyadic(OverlapMin[1], 1), y |-> FDyadic(OverlapMin[2], 1)],
                    max |-> [x |-> FDyadic(OverlapMax[1], 1), y |-> FDyadic(OverlapMax[2], 1)]] >>
           ELSE << >>
    /\ answer[1].ba = answer[1].ab

\* two different rectangles that only touch along an edge have an
\* intersection, of no width
C15_Witness ==
  /\ last.op = "rect"
  /\ last.args[1] # last.args[2]
  /\ last.args[1][1] < last.args[1][3] /\ last.args[2][1] < last.args[2][3]
  /\ OverlapMin[1] = OverlapMax[1] /\ OverlapMin[2] < OverlapMax[2]
  /\ answer[1].intersects /\ answer[1].ab # << >>

(***************************************************************************)
(* Properties of Line::intersection_point (geom/line.rs)                   *)
(***************************************************************************)
\* the two segments of the last query: (X1,Y1)-(X2,Y2) and (X3,Y3)-(X4,Y4)
X1 == last.args[1][1]
Y1 == last.args[1][2]
X2 == last.args[1][3]
Y2 == last.args[1][4]
X3 == last.args[2][1]
Y3 == last.args[2][2]
X4 == last.args[2][3]
Y4 == last.args[2][4]

\* the solution of start + t (end - start) = other.start + u (other.end -
\* other.start) in whole numbers: t = SegT / SegDenom, u = SegU / SegDenom
SegDenom == (X1 - X2) * (Y3 - Y4) - (Y1 - Y2) * (X3 - X4)

SegT == (X1 - X3) * (Y3 - Y4) - (Y1 - Y3) * (X3 - X4)

SegU == (X1 - X3) * (Y1 - Y2) - (Y1 - Y3) * (X1 - X2)

InUnit(n, d) == IF d > 0 THEN 0 <= n /\ n <= d ELSE d <= n /\ n <= 0

\* the lines cross in one point and it is on both segments
SegCrossing == SegDenom # 0 /\ InUnit(SegT, SegDenom) /\ InUnit(SegU, SegDenom)

\* that point is (CrossX / SegDenom, CrossY / SegDenom)
CrossX == X1 * SegDenom + SegT * (X2 - X1)

CrossY == Y1 * SegDenom + SegT * (Y2 - Y1)

\* the largest magnitude of an endpoint coordinate
SegMagnitude == Max(Max(Max(X1, Y1), Max(X2, Y2)), Max(Max(X3, Y3), Max(X4, Y4)))

RECURSIVE GCD(_, _)
GCD(a, b) == IF b = 0 THEN a ELSE GCD(b, a % b)

\* n / d is a whole number of 2^-k for some k: in lowest terms its
\* denominator is a power of two
IsDyadic(n, d) == LET r == Abs(d) \div GCD(Abs(n), Abs(d)) IN r = Pow2(BitLen(r) - 1)

\* v is the rational n / d
IsRatio(v, n, d) == IsDyadic(n, d) /\ FEq(v, FDiv(FInt(n), FInt(d)))

\* v is within 7 * 2^-24 * SegMagnitude of n / d rounded to f32
NearRatio(v, n, d) ==
  FLe(FAbs(FSub(v, FDiv(FInt(n), FInt(d)))), FDyadic(7 * SegMagnitude, 24))

\* C16 as stated: intersection_point is None for parallel segments and when
\* intersects is false, and otherwise Some(p) with p on both segments, that
\* is, p the one point the two segments share.
C16_PointOnBothSegments ==
  last.op = "intersection_point" =>
    IF SegCrossing
      THEN /\ answer[1] # << >>
           /\ IsRatio(answer[1][1].x, CrossX, SegDenom)
           /\ IsRatio(answer[1][1].y, CrossY, SegDenom)
      ELSE answer[1] = << >>

\* C16 amended: intersection_point is None for parallel segments (collinear
\* and degenerate ones included) and when the segments do not meet, and
\* otherwise Some(p) with each coordinate of p within 2^-21 times the
\* largest endpoint coordinate of the point the two segments share.
C16_PointWithinRounding ==
  last.op = "intersection_point" =>
    IF SegCrossing
      THEN /\ answer[1] # << >>
           /\ NearRatio(answer[1][1].x, CrossX, SegDenom)
           /\ NearRatio(answer[1][1].y, CrossY, SegDenom)
      ELSE answer[1] = << >>

\* two segments that cross in a point with a coordinate no f32 holds
C16_Witness ==
  /\ last.op = "intersection_point"
  /\ SegCrossing
  /\ ~IsDyadic(CrossX, SegDenom)
  /\ answer[1] # << >>
  /\ ~IsRatio(answer[1][1].x, CrossX, SegDenom)

(***************************************************************************)
(* Properties of Rectangle (shape.rs)                                      *)
(***************************************************************************)
\* the last rectangle query has only multiples of 1/2: every sum and
\* difference of its values is exact in f32
HalvesOnly == \A i \in 1..6 : last.args[i] % 5 = 0

\* v clamped into lo..hi
Clamp(v, lo, hi) == Max(lo, Min(v, hi))

\* in halves of a unit, the offset of the point of the last query from
\* itself clamped into the rectangle, on the two axes
OffX == LET px == last.args[1] \div 5  tx == last.args[3] \div 5  w == last.args[5] \div 5
        IN px - Clamp(px, tx, tx + w)

OffY == LET py == last.args[2] \div 5  ty == last.args[4] \div 5  h == last.args[6] \div 5
        IN py - Clamp(py, ty, ty + h)

\* C17: for a rectangle of non-negative width and height, distance(p) is
\* never negative, is 0 exactly when contains(p) is true, and otherwise is
\* the Euclidean distance from p to p clamped into the rectangle.
C17_DistanceZeroExactlyInside ==
  last.op = "rectangle" =>
    /\ ~answer[1].distance.neg
    /\ (answer[1].distance.m = 0) = answer[1].contains
    /\ HalvesOnly =>
         /\ answer[1].contains = (OffX = 0 /\ OffY = 0)
         /\ answer[1].distance = FSqrt(FDyadic(OffX * OffX + OffY * OffY, 2))

QuarterOffsets == { << FDyadic(i, 2), FDyadic(j, 2) >> : i \in { 1, 3 }, j \in { 1, 3 } }

\* how many of them, from pixel p, are inside the last shape
QuarterCount(p) ==
  Cardinality({ d \in QuarterOffsets :
    contains(LastShape, Point(FAdd(FInt(p[1]), d[1]), FAdd(FInt(p[2]), d[2]))) })

\* C19: in the fill pass the coverage of a pixel of the scan region is the
\* number of the four quarter offsets inside the shape, over 4; the pixel
\* is blended with the fill colour's alpha scaled by the coverage and
\* truncated exactly when the coverage is above 0, and is otherwise left as
\* it was.
C19_FillBlendsByCoverage ==
  (ShapeDrawn /\ recent.fill # None) =>
    \A p \in CanvasPixels :
      ~OutsideBox(p) =>
        drawn.mid.buffer[Slot(p)] =
          IF QuarterCount(p) > 0
            THEN CanvasComposite(prev.buffer[Slot(p)],
                   WithAlpha(recent.fill[1],
                     AsU8(FMul(FInt(ColorA(recent.fill[1])),
                               FDyadic(QuarterCount(p), 2)))))
            ELSE prev.buffer[Slot(p)]

\* pixel p is in the scan region of the stroke pass of the last shape call:
\* the rounded bounding box widened by the whole part of the stroke weight
InStrokeScan(p) ==
  LET bb == bounding_box(LastShape)
      sw == AsI32(prev.stroke_weight)
  IN /\ FloorI(bb[1].x) - sw <= p[1] /\ p[1] <= CeilI(bb[2].x) + sw
     /\ FloorI(bb[1].y) - sw <= p[2] /\ p[2] <= CeilI(bb[2].y) + sw

\* |shape.distance| at pixel p, and half the stroke weight
StrokeDistance(p) == FAbs(distance(LastShape, Point(FInt(p[1]), FInt(p[2]))))

HalfStroke == FDiv(prev.stroke_weight, FInt(2))

\* the alpha byte the stroke colour is given at pixel p:
\* alpha * (stroke_weight / 2 - |distance|) / stroke_weight, truncated
StrokeAlpha(p) ==
  (CHOOSE the \in { AsU8(FMul(FInt(ColorA(recent.stroke[1])), coverage)) :
          coverage \in { FDiv(FSub(HalfStroke, StrokeDistance(p)),
                              prev.stroke_weight) } } : TRUE)

\* pixel p of the canvas after the fill pass, blended with the stroke
\* colour at that alpha
StrokeBlended(p) ==
  (CHOOSE the \in { CanvasComposite(drawn.mid.buffer[Slot(p)], color) :
          color \in { WithAlpha(recent.stroke[1], StrokeAlpha(p)) } } : TRUE)

\* C20 as stated: after the stroke pass every pixel of the scan region whose
\* |distance| is at most half the stroke weight equals the stroke colour,
\* whatever it held before.
C20_StrokeOverwrites ==
  (ShapeDrawn /\ recent.stroke # None) =>
    \A p \in CanvasPixels :
      (InStrokeScan(p) /\ FLe(StrokeDistance(p), HalfStroke)) =>
        canvas.buffer[Slot(p)] = recent.stroke[1]

\* C20 amended: the stroke pass blends every pixel of the scan region whose
\* |distance| is below half the stroke weight with the stroke colour at
\* alpha * (stroke_weight / 2 - |distance|) / stroke_weight, truncated, which
\* is at most half the colour's alpha, over what the pixel held after the
\* fill pass; every other pixel, those at exactly half the stroke weight
\* included, is as the fill pass left it.
C20_StrokeBlendsByDistance ==
  (ShapeDrawn /\ recent.stroke # None) =>
    \A p \in CanvasPixels :
      IF InStrokeScan(p) /\ FLt(StrokeDistance(p), HalfStroke)
        THEN /\ canvas.buffer[Slot(p)] = StrokeBlended(p)
             /\ 2 * StrokeAlpha(p) <= ColorA(recent.stroke[1])
        ELSE canvas.buffer[Slot(p)] = drawn.mid.buffer[Slot(p)]

\* a stroke pass over a painted background that blends one pixel on the
\* outline at half the alpha and another, off the outline, at less, and
\* leaves a pixel at exactly half the stroke weight as it was
C20_Witness ==
  /\ ShapeDrawn /\ recent.stroke # None
  /\ drawn.mid.buffer # CanvasNew(Width, Height).buffer
  /\ \E p \in CanvasPixels :
       /\ InStrokeScan(p) /\ StrokeDistance(p).m = 0
       /\ StrokeAlpha(p) = 127
       /\ canvas.buffer[Slot(p)] # drawn.mid.buffer[Slot(p)]
       /\ canvas.buffer[Slot(p)] # recent.stroke[1]
  /\ \E p \in CanvasPixels :
       /\ InStrokeScan(p) /\ StrokeDistance(p).m # 0
       /\ FLt(StrokeDistance(p), HalfStroke)
       /\ StrokeAlpha(p) \in 1..126
       /\ canvas.buffer[Slot(p)] # drawn.mid.buffer[Slot(p)]

\* |distance| at pixel p is in the band one pixel wide beyond half the
\* stroke weight
InFringe(p) ==
  /\ FGt(StrokeDistance(p), HalfStroke)
  /\ FLe(StrokeDistance(p), FAdd(HalfStroke, FInt(1)))

\* pixel p after the fill pass, blended with the stroke colour at its alpha
\* scaled by stroke_weight / 2 + 1 - |distance|
FringeBlended(p) ==
  (CHOOSE the \in { CanvasComposite(drawn.mid.buffer[Slot(p)], color) :
          color \in { WithAlpha(recent.stroke[1],
                        AsU8(FMul(FInt(ColorA(recent.stroke[1])),
                                  FSub(FAdd(HalfStroke, FInt(1)),
                                       StrokeDistance(p))))) } } : TRUE)

\* C21 as stated: after the stroke pass a pixel of the scan region with
\* stroke_weight / 2 < |distance| <= stroke_weight / 2 + 1 is blended with
\* the stroke colour at the partial alpha of stroke_weight / 2 + 1 -
\* |distance|, and a pixel farther away is as it was.
C21_FringeBlendedOnce ==
  (ShapeDrawn /\ recent.stroke # None) =>
    \A p \in CanvasPixels :
      /\ (InStrokeScan(p) /\ InFringe(p)) =>
           canvas.buffer[Slot(p)] = FringeBlended(p)
      /\ FGt(StrokeDistance(p), FAdd(HalfStroke, FInt(1))) =>
           canvas.buffer[Slot(p)] = drawn.mid.buffer[Slot(p)]

\* C21 amended: the stroke pass scans the rounded bounding box widened by
\* the whole part of the stroke weight, and leaves every pixel whose
\* |distance| is above half the stroke weight as the fill pass left it, in
\* the band up to one pixel beyond as well as farther away; the pixels it
\* changes are in the scan region.
C21_BeyondHalfStrokeUnchanged ==
  (ShapeDrawn /\ recent.stroke # None) =>
    \A p \in CanvasPixels :
      /\ FGt(StrokeDistance(p), HalfStroke) =>
           canvas.buffer[Slot(p)] = drawn.mid.buffer[Slot(p)]
      /\ canvas.buffer[Slot(p)] # drawn.mid.buffer[Slot(p)] => InStrokeScan(p)

\* a stroke pass on a new canvas that blends one pixel and leaves a pixel of
\* the scan region in the band beyond half the stroke weight as it was
C21_Witness ==
  /\ ShapeDrawn /\ recent.stroke # None
  /\ drawn.mid.buffer = CanvasNew(Width, Height).buffer
  /\ \E p \in CanvasPixels : canvas.buffer[Slot(p)] # drawn.mid.buffer[Slot(p)]
  /\ \E p \in CanvasPixels :
       /\ InStrokeScan(p) /\ InFringe(p)
       /\ canvas.buffer[Slot(p)] = drawn.mid.buffer[Slot(p)]
       /\ canvas.buffer[Slot(p)] # FringeBlended(p)

\* the last shape call had a fill colour and a stroke colour
BothPasses == ShapeDrawn /\ recent.fill # None /\ recent.stroke # None

\* C22: a shape call with both colours set runs the fill pass, then the
\* stroke pass: between the two the canvas is what the fill pass alone makes
\* of the canvas before the call, and at the return it is what the stroke
\* pass makes of that, so every pixel the stroke pass writes is composited
\* over the fill pass's result.
C22_FillThenStroke ==
  BothPasses =>
    /\ drawn.mid = fill_shape_aa(prev, LastShape, recent.fill[1])
    /\ canvas = stroke_shape_aa(drawn.mid, LastShape, recent.stroke[1])
    /\ \A p \in CanvasPixels :
         canvas.buffer[Slot(p)] # drawn.mid.buffer[Slot(p)] =>
           canvas.buffer[Slot(p)] = StrokeBlended(p)

\* a call with both colours over a painted background whose stroke pass
\* writes a pixel of the fill pass's scan region
C22_Witness ==
  /\ BothPasses
  /\ prev.buffer # CanvasNew(Width, Height).buffer
  /\ \E p \in CanvasPixels :
       /\ ~OutsideBox(p)
       /\ canvas.buffer[Slot(p)] # drawn.mid.buffer[Slot(p)]
       /\ canvas.buffer[Slot(p)] = StrokeBlended(p)

(***************************************************************************)
(* The pixels draw_line visits.                                            *)
(***************************************************************************)

\* the last operation was a draw_line
LineDrawn == last.op = "draw_line"

\* the pixels of its two endpoints
StartPixel == << FloorI(last.args[1].x), FloorI(last.args[1].y) >>

EndPixel == << FloorI(last.args[2].x), FloorI(last.args[2].y) >>

\* max(|dx|, |dy|) + 1
WalkLength ==
  Max(Abs(EndPixel[1] - StartPixel[1]), Abs(EndPixel[2] - StartPixel[2])) + 1

\* the calls go from the start pixel to the end pixel, WalkLength of them,
\* each next to the one before
WalksStartToEnd(calls) ==
  /\ Len(calls) = WalkLength
  /\ calls[1] = StartPixel
  /\ calls[Len(calls)] = EndPixel
  /\ \A i \in 1 .. (Len(calls) - 1) :
       /\ Abs(calls[i + 1][1] - calls[i][1]) <= 1
       /\ Abs(calls[i + 1][2] - calls[i][2]) <= 1

\* the calls of a loop still running can go on to the end pixel by such
\* steps and make WalkLength calls: the i-th is no further from the end
\* pixel, in x and in y, than the number of calls left
CanWalkToEnd(calls) ==
  /\ calls[1] = StartPixel
  /\ \A i \in 1 .. Len(calls) :
       /\ Abs(EndPixel[1] - calls[i][1]) <= WalkLength - i
       /\ Abs(EndPixel[2] - calls[i][2]) <= WalkLength - i
  /\ \A i \in 1 .. (Len(calls) - 1) :
       /\ Abs(calls[i + 1][1] - calls[i][1]) <= 1
       /\ Abs(calls[i + 1][2] - calls[i][2]) <= 1

\* the answer of the last draw_line
Walk == answer[1]

\* C23: draw_line returns, having called set_pixel max(|dx|, |dy|) + 1 times,
\* first on the start pixel, last on the end pixel, every call on a pixel at
\* most 1 away in x and in y from the call before, whatever the two pixels
\* are, the same one and pixels outside the canvas included.  Of a loop
\* followed for MaxCalls calls only, the calls made are such that it still can.
C23_LineWalksStartToEnd ==
  LineDrawn =>
    /\ Walk.status # "panicked"
    /\ Walk.status = "returned" => WalksStartToEnd(Walk.calls)
    /\ Walk.status = "running" => CanWalkToEnd(Walk.calls)

\* the same for the lines followed to their end
C23_CanvasLineWalksStartToEnd ==
  (LineDrawn /\ WalkLength <= MaxCalls) =>
    /\ Walk.status = "returned"
    /\ WalksStartToEnd(Walk.calls)

\* a steep line drawn to its end from inside the canvas to outside it
C23_Witness ==
  /\ LineDrawn
  /\ Walk.status = "returned"
  /\ WalkLength = Height + 3
  /\ EndPixel[2] < 0
  /\ StartPixel[1] # EndPixel[1]

\* a line of 2^30 pixels along a row: the build with overflow checks panics
\* after the first call
C23_FarLinePanics ==
  /\ LineDrawn
  /\ Walk.status = "panicked"
  /\ Len(Walk.calls) = 1

\* the build without them walks off the row of the two endpoints
C23_FarLineAstray ==
  /\ LineDrawn
  /\ Walk.status = "running"
  /\ StartPixel[2] = EndPixel[2]
  /\ \A i \in 1 .. Len(Walk.calls) : Walk.calls[i] = << 0, 1 - i >>

\* a line of 2^30 pixels whose first MaxCalls calls are as they should be
C23_FarLineOnItsWay ==
  /\ LineDrawn
  /\ Walk.status = "running"
  /\ CanWalkToEnd(Walk.calls)

(***************************************************************************)
(* The sign of the distance to an ellipse and to a polygon.                *)
(***************************************************************************)

\* the last query was of an ellipse, of a polygon with two vertices or more
AskedEllipse == last.op = "ellipse"

AskedClosedPolygon == last.op = "polygon" /\ Len(last.args[1].vertices) >= 2

\* distance < 0 implies contains, contains implies distance <= 0
SignAgrees(inside, d) ==
  /\ FLt(d, FZero) => inside
  /\ inside => FLe(d, FZero)

\* C24: for an ellipse of positive width and height and for a polygon of two
\* vertices or more, a negative distance is the distance of a contained
\* point, and the distance of a contained point is negative or zero.
C24_DistanceSignAgreesWithContains ==
  /\ AskedEllipse => SignAgrees(answer[1].contains, answer[1].distance)
  /\ AskedClosedPolygon =>
       /\ ~answer[1].contains.panicked
       /\ ~answer[1].distance.panicked
       /\ SignAgrees(answer[1].contains.value, answer[1].distance.value)

\* a point inside a polygon, off its edges
C24_Witness ==
  /\ AskedClosedPolygon
  /\ answer[1].contains.value
  /\ FLt(answer[1].distance.value, FZero)

\* a point on the boundary of an ellipse and one just outside it
C24_EllipseBoundary ==
  /\ AskedEllipse
  /\ answer[1].contains
  /\ answer[1].distance.m = 0
  /\ last.args[2].x.m # 0 /\ last.args[2].y.m # 0

C24_EllipseInside ==
  /\ AskedEllipse
  /\ answer[1].contains
  /\ FLt(answer[1].distance, FZero)

C24_EllipseOutside ==
  /\ AskedEllipse
  /\ ~answer[1].contains
  /\ FGt(answer[1].distance, FZero)

\* a point on an edge of a polygon that contains counts as inside
C24_PolygonEdge ==
  /\ AskedClosedPolygon
  /\ answer[1].contains.value
  /\ answer[1].distance.value.m = 0

(***************************************************************************)
(* The two loops of ApplicationRunner::run.                                *)
(***************************************************************************)

\* what the host loop has done since run was last called
SinceRun == SubSeq(events, started + 1, Len(events))

\* the loop has seen the window closed or Escape down
SeenClosed == last.op = "closed"

\* C25: run in SingleFrame mode does update, draw and present once each, and
\* nothing more while it waits for the window to close or when it returns;
\* in Continuous mode, when a test of the loop sees the window closed or
\* Escape down run returns at once, having done whole frames only; a new
\* runner is in Continuous mode.
C25_RunLoops ==
  /\ last.op = "runner_new" => runner.loop_mode = "Continuous"
  /\ (runner.loop_mode = "SingleFrame" /\ runner.pc \in { "wait", "returned" }) =>
       SinceRun = FrameCycle
  /\ SeenClosed => runner.pc = "returned"
  /\ runner.pc = "returned" =>
       /\ Len(SinceRun) % Len(FrameCycle) = 0
       /\ last.op = "closed"

\* a single frame shown, and the closing loop gone round with the window open
C25_Witness ==
  /\ runner.loop_mode = "SingleFrame"
  /\ last.op = "wait"
  /\ SinceRun = FrameCycle
  /\ shown # None

\* the continuous loop, the mode of a new runner, left after two frames, and
\* left by its first test
C25_ContinuousLeft ==
  /\ runner.loop_mode = "Continuous"
  /\ SeenClosed
  /\ Len(SinceRun) = 2 * Len(FrameCycle)

C25_ContinuousLeftAtOnce ==
  /\ runner.loop_mode = "Continuous"
  /\ SeenClosed
  /\ SinceRun = << >>

\* a second run, of a single frame, after a continuous one
C25_SecondRun ==
  /\ runner.loop_mode = "SingleFrame"
  /\ runner.pc = "returned"
  /\ started = 1 + Len(FrameCycle)
====
